---- MODULE Spec2Model ----
(***************************************************************************)
(* lockables: Guarded<T, Mutex> (guard API), Value<T, Mutex> (callback    *)
(* API) and the free function with_exclusive (joint acquisition of        *)
(* several Guarded cells through std::scoped_lock).                        *)
(*                                                                         *)
(* A cell is a value together with its mutex.  Every thread runs calls    *)
(* into the library; a call in progress is a frame on the thread's stack. *)
(* A frame goes through the stages                                         *)
(*   "lock"    the lock object is being constructed (blocking lock())      *)
(*   "try"     std::lock holds some mutexes and try_locks the next one     *)
(*   "backoff" a try_lock failed, the held mutexes are not yet unlocked    *)
(*   "held"    the guard is alive / the callback is running                *)
(*   "thrown"  user code threw, the lock object is not yet destroyed       *)
(*   "done"    the lock object is destroyed, the caller sees the outcome   *)
(***************************************************************************)
EXTENDS Naturals, Integers, Sequences, FiniteSets, TLC

VARIABLES kind, prim, value, mutex, stack, incs

vars == <<kind, prim, value, mutex, stack, incs>>

Threads == {"t1", "t2"}
Cells == {"a", "b"}
NoThread == "none"
NoError == "none"
Errors == {"e1", "e2"}

\* Largest number of increments (of all cells together) in a behaviour.
MaxIncs == 2

\* Largest number of calls of with_exclusive in a behaviour of the examples.
MaxCalls == 2

\* Largest number of calls a thread has in progress, one inside the other.
MaxDepth == 2
kTarget == 2

\* The standard mutex types.
MutexTypes ==
  {"mutex", "timed_mutex", "recursive_mutex", "recursive_timed_mutex",
   "shared_mutex", "shared_timed_mutex"}

\* The primitives the cells of the model are instantiated with.
CellMutexTypes == {"mutex", "shared_mutex", "shared_timed_mutex"}

Kinds == {"Guarded", "Value"}

\* A Guarded whose default mutex type is std::recursive_mutex.
DefaultMutex_recursive == "recursive_mutex"

\* template <typename T, typename Mutex = std::mutex> class Guarded
DefaultMutex == "mutex"

\* The arguments the cells are constructed with: Guarded<int> a; and
\* Guarded<int> b{1} (or Value<int> b{1}).
CtorArgs == [c \in Cells |-> IF c = "a" THEN << >> ELSE <<1>>]

\* A constructor that does not forward its arguments.
Guarded_ctor_ignores_args(args) == 0

\* Guarded(Args&&... args) : value_{std::forward<Args>(args)...}, for T = int:
\* int{} is 0, int{x} is x.
Guarded_ctor(args) == IF args = << >> THEN 0 ELSE args[1]

InitValue == [c \in Cells |-> Guarded_ctor(CtorArgs[c])]

(***************************************************************************)
(* The mutex: exclusive owner (with a recursion count) and the number of   *)
(* shared holds of every thread.                                           *)
(***************************************************************************)
FreeMutex ==
  [owner |-> NoThread, count |-> 0, shared |-> [t \in Threads |-> 0]]

NoReaders(m) == \A t \in DOMAIN m.shared : m.shared[t] = 0

\* A lock() that does not wait for the readers to leave.
can_lock_ignoring_readers(m) == m.owner = NoThread

\* A lock() that returns although the mutex is held.
can_lock_not_waiting(m) == TRUE

\* Mutex::lock() returns: nobody holds the mutex in any mode.
can_lock(m) == m.owner = NoThread /\ NoReaders(m)

\* A lock_shared() that does not wait for the writer to leave.
can_lock_shared_always(m) == TRUE

\* Mutex::lock_shared() returns: nobody holds the mutex exclusively.
can_lock_shared(m) == m.owner = NoThread

lock(m, t) == [m EXCEPT !.owner = t, !.count = @ + 1]

\* An unlock() that leaves the mutex locked.
unlock_noop(m, t) == m

unlock(m, t) ==
  [m EXCEPT !.count = @ - 1,
            !.owner = IF m.count = 1 THEN NoThread ELSE m.owner]

lock_shared(m, t) == [m EXCEPT !.shared[t] = @ + 1]

unlock_shared(m, t) == [m EXCEPT !.shared[t] = @ - 1]

(***************************************************************************)
(* Lock selection.                                                         *)
(***************************************************************************)
\* A SharedLock without the specialisation for std::shared_timed_mutex.
SharedLock_without_timed(Mutex) ==
  IF Mutex = "shared_mutex" THEN "shared_lock" ELSE "scoped_lock"

\* A SharedLock that is std::shared_lock for every mutex type.
SharedLock_always_shared(Mutex) == "shared_lock"

\* A SharedLock that has the primary template only.
SharedLock_primary_only(Mutex) == "scoped_lock"

\* guarded.hpp, struct SharedLock and its two specialisations.
SharedLock(Mutex) ==
  IF Mutex \in {"shared_mutex", "shared_timed_mutex"}
  THEN "shared_lock" ELSE "scoped_lock"

shared_lock_t(Mutex) == SharedLock(Mutex)

\* A lock_type that selects the readers' lock for writers as well.
lock_type_always_shared(isConst, Mutex) == shared_lock_t(Mutex)

\* GuardedScope<T, Mutex>::lock_type; isConst is std::is_const_v<T>.
lock_type(isConst, Mutex) ==
  IF isConst THEN shared_lock_t(Mutex) ELSE "scoped_lock"

\* Value<T, Mutex>::shared_lock
shared_lock(Mutex) ==
  IF Mutex = "shared_mutex" THEN "shared_lock" ELSE "scoped_lock"

\* An exclusive_lock that is the readers' lock.
exclusive_lock_as_shared(Mutex) == shared_lock(Mutex)

\* Value<T, Mutex>::exclusive_lock
exclusive_lock(Mutex) ==
  IF Mutex = "shared_mutex" THEN "unique_lock" ELSE "scoped_lock"

\* std::shared_lock calls lock_shared(); std::scoped_lock and
\* std::unique_lock call lock().
LockCanAcquire(lk, m) ==
  IF lk = "shared_lock" THEN can_lock_shared(m) ELSE can_lock(m)

\* A lock that every mutex type lets its owner take once more.
LockCanAcquireBy_reentrant(lk, m, t, Mutex) ==
  LockCanAcquire(lk, m) \/ (m.owner = t /\ NoReaders(m))

\* The constructor of the lock object returns when thread t runs it: the
\* mutex can be locked in the mode of the lock, or it is a recursive mutex
\* that t owns already.  (lock() by the owner of a mutex of another type
\* does not return; lock_shared() by a thread that holds the mutex shared
\* has undefined behaviour and returns in the usual implementations.)
LockCanAcquireBy(lk, m, t, Mutex) ==
  \/ LockCanAcquire(lk, m)
  \/ /\ Mutex \in {"recursive_mutex", "recursive_timed_mutex"}
     /\ m.owner = t
     /\ NoReaders(m)

LockAcquire(lk, m, t) ==
  IF lk = "shared_lock" THEN lock_shared(m, t) ELSE lock(m, t)

\* A lock object whose destructor does not unlock.
LockRelease_missing(lk, m, t) == m

\* The destructor of the lock object.
LockRelease(lk, m, t) ==
  IF lk = "shared_lock" THEN unlock_shared(m, t) ELSE unlock(m, t)

(***************************************************************************)
(* Frames.                                                                 *)
(***************************************************************************)
GuardOps == {"Guarded.with_shared", "Guarded.with_exclusive"}
ValueOps == {"Value.with_shared", "Value.with_exclusive"}
CombOp == "with_exclusive"
\* A GuardedScope<T, Mutex> the caller constructs itself, over a pointer and
\* a mutex of its own choice (T const or not).
ScopeOps == {"GuardedScope", "GuardedScope.const"}
\* A shared_scope over T that is not const.
ConstOps_shared_scope_mutable == {"Value.with_shared", "GuardedScope.const"}

ConstOps == {"Guarded.with_shared", "Value.with_shared", "GuardedScope.const"}
NullPtr == "nullptr"

\* The locals of user code before it has read anything.
NoLocals(f) == [i \in 1..Len(f.cells) |-> 0]

\* arg is the pointer given to the constructor of a guard, non_owning_ the
\* member of the guard.
\* n counts the invocations of the function object of a Value call.
\* fn is the user code of the call (the function object f of the callback
\* interfaces, the scope of the guard otherwise), ret what it returned.
NewFrame(op, cs, lk) ==
  [op |-> op, cells |-> cs, lk |-> lk, st |-> "lock", first |-> 1,
   got |-> {}, ph |-> "in", loc |-> [i \in 1..Len(cs) |-> 0], wr |-> 0,
   fn |-> "inc", ret |-> "void", arg |-> NullPtr, non_owning_ |-> NullPtr,
   n |-> 0,
   err |-> NoError, path |-> "none", out |-> "none"]

\* What leaves the call: the exception in flight, if there is one (no
\* function of the library catches anything), the result of f otherwise.
Outcome(f) == IF f.st = "thrown" THEN f.err ELSE f.ret

\* An operator bool that is true of every guard.
operator_bool_always(f) == TRUE

\* explicit operator bool() const noexcept: non_owning_ != nullptr
operator_bool(f) == f.non_owning_ # NullPtr

\* An operator* that yields the object the mutex belongs to.
operator_star_of_mutex(f) == f.cells[1]

\* operator*() const noexcept: *non_owning_ (the object, by its identity)
operator_star(f) == f.non_owning_

\* The object the i-th reference of user code refers to: what the guard
\* yields, or the i-th value the callback is given.
Ref(f, i) ==
  IF f.op \in GuardOps \cup ScopeOps THEN operator_star(f) ELSE f.cells[i]

Top(t) == stack[t][Len(stack[t])]
SetTop(t, f) == [stack EXCEPT ![t] = [@ EXCEPT ![Len(@)] = f]]
Push(t, f) == [stack EXCEPT ![t] = Append(@, f)]
Pop(t) == [stack EXCEPT ![t] = SubSeq(@, 1, Len(@) - 1)]

Range(s) == {s[i] : i \in 1..Len(s)}


\* A destructor that unlocks only the first of the mutexes.
UnlockAll_first_only(mx, cs, idxs, t) ==
  IF 1 \in idxs THEN [mx EXCEPT ![cs[1]] = unlock(@, t)] ELSE mx

RECURSIVE UnlockAll(_, _, _, _)
\* ~scoped_lock(): unlock every mutex the lock object owns.
UnlockAll(mx, cs, idxs, t) ==
  IF idxs = {} THEN mx
  ELSE LET i == CHOOSE j \in idxs : TRUE
       IN  UnlockAll([mx EXCEPT ![cs[i]] = unlock(@, t)], cs, idxs \ {i}, t)

(***************************************************************************)
(* Construction.                                                           *)
(***************************************************************************)
Init ==
  /\ kind \in [Cells -> Kinds]
  /\ kind["a"] = "Guarded"
  /\ prim \in [Cells -> CellMutexTypes]
  /\ value = InitValue
  /\ mutex = [c \in Cells |-> FreeMutex]
  /\ stack = [t \in Threads |-> << >>]
  /\ incs = [c \in Cells |-> 0]

(***************************************************************************)
(* Guarded<T, Mutex>                                                       *)
(***************************************************************************)
\* Guarded::with_shared(): return shared_scope{&value_, mutex_}
Guarded_with_shared(t, c) ==
  /\ kind[c] = "Guarded"
  /\ stack' = Push(t, [NewFrame("Guarded.with_shared", <<c>>,
                                lock_type(TRUE, prim[c]))
                       EXCEPT !.arg = c])
  /\ UNCHANGED <<kind, prim, value, mutex, incs>>

\* Guarded::with_exclusive(): return exclusive_scope{&value_, mutex_}
Guarded_with_exclusive(t, c) ==
  /\ kind[c] = "Guarded"
  /\ stack' = Push(t, [NewFrame("Guarded.with_exclusive", <<c>>,
                                lock_type(FALSE, prim[c]))
                       EXCEPT !.arg = c])
  /\ UNCHANGED <<kind, prim, value, mutex, incs>>

\* A constructor that does not lock when the pointer is null.
GuardedScope_ctor_null_unlocked(t) ==
  /\ stack[t] # << >>
  /\ LET f == Top(t)
         c == f.cells[1]
     IN  /\ f.op \in GuardOps \cup ScopeOps
         /\ f.st = "lock"
         /\ IF f.arg = NullPtr
            THEN mutex' = mutex
            ELSE /\ LockCanAcquireBy(f.lk, mutex[c], t, prim[c])
                 /\ mutex' = [mutex EXCEPT ![c] = LockAcquire(f.lk, @, t)]
         /\ stack' = SetTop(t, [f EXCEPT !.st = "held",
                                         !.non_owning_ = f.arg])
  /\ UNCHANGED <<kind, prim, value, incs>>

\* A constructor that gives up when the mutex is held: the accessor returns
\* without the lock and without a guard.
GuardedScope_ctor_gives_up(t) ==
  /\ stack[t] # << >>
  /\ LET f == Top(t)
         c == f.cells[1]
     IN  /\ f.op \in GuardOps \cup ScopeOps
         /\ f.st = "lock"
         /\ IF LockCanAcquireBy(f.lk, mutex[c], t, prim[c])
            THEN /\ mutex' = [mutex EXCEPT ![c] = LockAcquire(f.lk, @, t)]
                 /\ stack' = SetTop(t, [f EXCEPT !.st = "held",
                                                 !.non_owning_ = f.arg])
            ELSE /\ mutex' = mutex
                 /\ stack' = SetTop(t, [f EXCEPT !.st = "done",
                                                 !.path = "timeout"])
  /\ UNCHANGED <<kind, prim, value, incs>>

\* GuardedScope(pointer ptr, Mutex& mutex) : non_owning_{ptr}, lock_{mutex}
GuardedScope_ctor(t) ==
  /\ stack[t] # << >>
  /\ LET f == Top(t)
         c == f.cells[1]
     IN  /\ f.op \in GuardOps \cup ScopeOps
         /\ f.st = "lock"
         /\ LockCanAcquireBy(f.lk, mutex[c], t, prim[c])
         /\ mutex' = [mutex EXCEPT ![c] = LockAcquire(f.lk, @, t)]
         /\ stack' = SetTop(t, [f EXCEPT !.st = "held",
                                         !.non_owning_ = f.arg])
  /\ UNCHANGED <<kind, prim, value, incs>>

\* ~GuardedScope() = default: destroys lock_, on every path that leaves the
\* scope of the guard (its normal end, an early return, an exception).
GuardedScope_dtor(t, path) ==
  /\ stack[t] # << >>
  /\ LET f == Top(t)
         c == f.cells[1]
     IN  /\ f.op \in GuardOps \cup ScopeOps
         /\ \/ f.st = "held" /\ path \in {"normal", "return"}
            \/ f.st = "thrown" /\ path = "unwind"
         /\ mutex' = [mutex EXCEPT ![c] = LockRelease(f.lk, @, t)]
         /\ stack' = SetTop(t, [f EXCEPT !.st = "done", !.path = path,
                                         !.ph = "in", !.loc = NoLocals(f),
                                         !.out = Outcome(f)])
  /\ UNCHANGED <<kind, prim, value, incs>>

(***************************************************************************)
(* Value<T, Mutex>                                                         *)
(***************************************************************************)
\* The types a function object can be declared to return: void, int, a
\* std::reference_wrapper<T>; by value, as a reference or as a pointer; const
\* or not (for a reference or a pointer, const is that of what it refers to).
ResultTypes ==
  {r \in [base : {"void", "int", "reference_wrapper"},
          form : {"value", "lref", "rref", "pointer"},
          const : BOOLEAN] :
     /\ r.base = "void" => r.form \in {"value", "pointer"}
     /\ r.base = "void" /\ r.form = "value" => ~r.const}

\* The function objects: the type of the parameter, the declared result
\* type, and whether the result designates the protected value (only a
\* reference, a pointer or a reference_wrapper can).
Callbacks ==
  {F \in [param : {"const T&", "T&"}, result : ResultTypes,
          into : BOOLEAN] :
     F.into => (F.result.form # "value" \/ F.result.base = "reference_wrapper")}

\* std::is_invocable_v<F, const T&> / <F, T&>: a parameter T& does not bind
\* to a const T&.
is_invocable_v(F, constArg) == ~(constArg /\ F.param = "T&")

\* std::invoke_result_t: the type of the call expression; a prvalue that is
\* not of class type has no cv-qualifier.
invoke_result_t(F) ==
  IF F.result.form = "value" /\ F.result.base \in {"void", "int"}
  THEN [F.result EXCEPT !.const = FALSE]
  ELSE F.result

is_reference_v(T) == T.form \in {"lref", "rref"}
is_pointer_v(T) == T.form = "pointer"

\* std::decay_t: the reference and then the top-level cv-qualifier are
\* removed (const belongs to the pointee of a pointer).
decay_t(T) ==
  IF is_reference_v(T) THEN [T EXCEPT !.form = "value", !.const = FALSE]
  ELSE IF is_pointer_v(T) THEN T
  ELSE [T EXCEPT !.const = FALSE]

\* A NotRef that lets pointers through.
NotRef_without_pointer(T) == ~is_reference_v(T) /\ decay_t(T) = T

\* concept NotRef
NotRef(T) == ~is_reference_v(T) /\ ~is_pointer_v(T) /\ decay_t(T) = T

\* concept ConstCallable<F, T>
ConstCallable(F) == is_invocable_v(F, TRUE) /\ NotRef(invoke_result_t(F))

\* concept Callable<F, T>
Callable(F) == is_invocable_v(F, FALSE) /\ NotRef(invoke_result_t(F))

\* Value::with_shared(f), up to the construction of the lock
Value_with_shared(t, c) ==
  /\ kind[c] = "Value"
  /\ stack' = Push(t, NewFrame("Value.with_shared", <<c>>,
                               shared_lock(prim[c])))
  /\ UNCHANGED <<kind, prim, value, mutex, incs>>

\* Value::with_exclusive(f), up to the construction of the lock
Value_with_exclusive(t, c) ==
  /\ kind[c] = "Value"
  /\ stack' = Push(t, NewFrame("Value.with_exclusive", <<c>>,
                               exclusive_lock(prim[c])))
  /\ UNCHANGED <<kind, prim, value, mutex, incs>>

\* Value::with_shared(f) requires ConstCallable<F, T>, for a function object
\* F with a result
Value_with_shared_f(t, c, F) ==
  /\ kind[c] = "Value"
  /\ ConstCallable(F)
  /\ stack' = Push(t, [NewFrame("Value.with_shared", <<c>>,
                                shared_lock(prim[c]))
                       EXCEPT !.fn = F])
  /\ UNCHANGED <<kind, prim, value, mutex, incs>>

\* Value::with_exclusive(f) requires Callable<F, T>, for a function object F
\* with a result
Value_with_exclusive_f(t, c, F) ==
  /\ kind[c] = "Value"
  /\ Callable(F)
  /\ stack' = Push(t, [NewFrame("Value.with_exclusive", <<c>>,
                                exclusive_lock(prim[c]))
                       EXCEPT !.fn = F])
  /\ UNCHANGED <<kind, prim, value, mutex, incs>>

\* shared_lock lock{mutex_}; / exclusive_lock lock{mutex_}; and
\* std::invoke(f, value_) is entered
Value_lock(t) ==
  /\ stack[t] # << >>
  /\ LET f == Top(t)
         c == f.cells[1]
     IN  /\ f.op \in ValueOps
         /\ f.st = "lock"
         /\ LockCanAcquireBy(f.lk, mutex[c], t, prim[c])
         /\ mutex' = [mutex EXCEPT ![c] = LockAcquire(f.lk, @, t)]
         /\ stack' = SetTop(t, [f EXCEPT !.st = "held", !.n = @ + 1])
  /\ UNCHANGED <<kind, prim, value, incs>>

\* A with_shared/with_exclusive whose lock is not released when it returns.
Value_return_keeps_lock(t) ==
  /\ stack[t] # << >>
  /\ LET f == Top(t)
     IN  /\ f.op \in ValueOps
         /\ f.st \in {"held", "thrown"}
         /\ stack' = SetTop(t, [f EXCEPT
               !.st = "done", !.ph = "in", !.loc = NoLocals(f),
               !.out = Outcome(f),
               !.path = IF f.st = "thrown" THEN "unwind" ELSE "normal"])
  /\ UNCHANGED <<kind, prim, value, mutex, incs>>

\* A with_shared/with_exclusive that unlocks by hand after f has returned:
\* nothing unlocks when f throws.
Value_return_no_raii(t) ==
  /\ stack[t] # << >>
  /\ LET f == Top(t)
         c == f.cells[1]
     IN  /\ f.op \in ValueOps
         /\ f.st \in {"held", "thrown"}
         /\ mutex' = IF f.st = "thrown" THEN mutex
                     ELSE [mutex EXCEPT ![c] = LockRelease(f.lk, @, t)]
         /\ stack' = SetTop(t, [f EXCEPT
               !.st = "done", !.ph = "in", !.loc = NoLocals(f),
               !.out = Outcome(f),
               !.path = IF f.st = "thrown" THEN "unwind" ELSE "normal"])
  /\ UNCHANGED <<kind, prim, value, incs>>

\* return std::invoke(f, value_): f has returned (or thrown), the local lock
\* is destroyed and the caller gets the result (or the exception).
Value_return(t) ==
  /\ stack[t] # << >>
  /\ LET f == Top(t)
         c == f.cells[1]
     IN  /\ f.op \in ValueOps
         /\ f.st \in {"held", "thrown"}
         /\ mutex' = [mutex EXCEPT ![c] = LockRelease(f.lk, @, t)]
         /\ stack' = SetTop(t, [f EXCEPT
               !.st = "done", !.ph = "in", !.loc = NoLocals(f),
               !.out = Outcome(f),
               !.path = IF f.st = "thrown" THEN "unwind" ELSE "normal"])
  /\ UNCHANGED <<kind, prim, value, incs>>


(***************************************************************************)
(* with_exclusive(f, values...)                                            *)
(***************************************************************************)
\* The argument lists of a call: no cell, one cell, two cells in either order.
CombArgs ==
  {<< >>} \cup {<<c>> : c \in Cells}
          \cup {<<c, d>> : <<c, d>> \in {x \in Cells \X Cells : x[1] # x[2]}}

\* A with_exclusive that invokes f without a lock.
with_exclusive_unlocked(t, f, cs) ==
  /\ \A i \in 1..Len(cs) : kind[cs[i]] = "Guarded"
  /\ stack' = Push(t, [NewFrame(CombOp, cs, "scoped_lock")
                         EXCEPT !.fn = f, !.st = "held"])
  /\ UNCHANGED <<kind, prim, value, mutex, incs>>

\* with_exclusive(f, values...), up to the construction of the lock
with_exclusive(t, f, cs) ==
  /\ \A i \in 1..Len(cs) : kind[cs[i]] = "Guarded"
  /\ stack' = Push(t, [NewFrame(CombOp, cs, "scoped_lock") EXCEPT !.fn = f])
  /\ UNCHANGED <<kind, prim, value, mutex, incs>>

\* The index std::lock tries after it holds the indices in got, starting
\* from first and going round.
NextIndex(f) == ((f.first - 1 + Cardinality(f.got)) % Len(f.cells)) + 1

\* An empty scoped_lock that waits until no mutex is locked.
scoped_lock0_ctor_waits(t) ==
  /\ stack[t] # << >>
  /\ LET f == Top(t)
     IN  /\ f.op = CombOp
         /\ f.st = "lock"
         /\ Len(f.cells) = 0
         /\ \A c \in DOMAIN mutex : can_lock(mutex[c])
         /\ stack' = SetTop(t, [f EXCEPT !.st = "held"])
  /\ UNCHANGED <<kind, prim, value, mutex, incs>>

\* std::scoped_lock<> lock{}: nothing to lock
scoped_lock0_ctor(t) ==
  /\ stack[t] # << >>
  /\ LET f == Top(t)
     IN  /\ f.op = CombOp
         /\ f.st = "lock"
         /\ Len(f.cells) = 0
         /\ stack' = SetTop(t, [f EXCEPT !.st = "held"])
  /\ UNCHANGED <<kind, prim, value, mutex, incs>>

\* std::scoped_lock<Mutex> lock{m}: m.lock()
scoped_lock1_ctor(t) ==
  /\ stack[t] # << >>
  /\ LET f == Top(t)
     IN  /\ f.op = CombOp
         /\ f.st = "lock"
         /\ Len(f.cells) = 1
         /\ LockCanAcquireBy("scoped_lock", mutex[f.cells[1]], t,
                             prim[f.cells[1]])
         /\ mutex' = [mutex EXCEPT ![f.cells[1]] = lock(@, t)]
         /\ stack' = SetTop(t, [f EXCEPT !.st = "held", !.got = {1}])
  /\ UNCHANGED <<kind, prim, value, incs>>

\* std::scoped_lock<MutexTypes...> lock{m...}: std::lock(m...), which starts
\* a round with a blocking lock() of the mutex at index first.
std_lock_first(t) ==
  /\ stack[t] # << >>
  /\ LET f == Top(t)
     IN  /\ f.op = CombOp
         /\ f.st = "lock"
         /\ Len(f.cells) > 1
         /\ LockCanAcquireBy("scoped_lock", mutex[f.cells[f.first]], t,
                             prim[f.cells[f.first]])
         /\ mutex' = [mutex EXCEPT ![f.cells[f.first]] = lock(@, t)]
         /\ stack' = SetTop(t, [f EXCEPT !.st = "try", !.got = {f.first}])
  /\ UNCHANGED <<kind, prim, value, incs>>

\* A std::lock that locks the mutexes one after another with lock().
std_lock_try_blocking(t) ==
  /\ stack[t] # << >>
  /\ LET f == Top(t)
         n == Len(f.cells)
         j == NextIndex(f)
     IN  /\ f.op = CombOp
         /\ f.st = "try"
         /\ can_lock(mutex[f.cells[j]])
         /\ mutex' = [mutex EXCEPT ![f.cells[j]] = lock(@, t)]
         /\ stack' = SetTop(t, [f EXCEPT
               !.got = @ \cup {j},
               !.st = IF Cardinality(f.got) + 1 = n THEN "held" ELSE "try",
               !.first = IF Cardinality(f.got) + 1 = n THEN 1 ELSE f.first])
  /\ UNCHANGED <<kind, prim, value, incs>>

\* Mutex::try_lock() by thread t can return true.  On a mutex t owns already
\* a recursive mutex is locked once more; for every other type the call has
\* undefined behaviour, and returning true is one of its outcomes.
try_lock_true(m, t) == can_lock(m) \/ (m.owner = t /\ NoReaders(m))

\* Mutex::try_lock() by thread t can return false (the other outcome of the
\* undefined call is the one of the usual implementations: it fails).
try_lock_false(m, t, Mutex) ==
  /\ ~can_lock(m)
  /\ ~(m.owner = t /\ Mutex \in {"recursive_mutex", "recursive_timed_mutex"})

\* std::lock: try_lock() the next mutex; when it fails remember its index as
\* the one to block on in the next round.
std_lock_try(t) ==
  /\ stack[t] # << >>
  /\ LET f == Top(t)
         n == Len(f.cells)
         j == NextIndex(f)
     IN  /\ f.op = CombOp
         /\ f.st = "try"
         /\ \/ /\ try_lock_true(mutex[f.cells[j]], t)
               /\ mutex' = [mutex EXCEPT ![f.cells[j]] = lock(@, t)]
               /\ stack' = SetTop(t, [f EXCEPT
                     !.got = @ \cup {j},
                     !.st = IF Cardinality(f.got) + 1 = n
                            THEN "held" ELSE "try",
                     !.first = IF Cardinality(f.got) + 1 = n
                               THEN 1 ELSE f.first])
            \/ /\ try_lock_false(mutex[f.cells[j]], t, prim[f.cells[j]])
               /\ mutex' = mutex
               /\ stack' = SetTop(t, [f EXCEPT !.st = "backoff",
                                               !.first = j])
  /\ UNCHANGED <<kind, prim, value, incs>>

\* A std::lock that starts the next round without unlocking.
std_lock_backoff_keep(t) ==
  /\ stack[t] # << >>
  /\ LET f == Top(t)
     IN  /\ f.op = CombOp
         /\ f.st = "backoff"
         /\ stack' = SetTop(t, [f EXCEPT !.st = "lock", !.got = {}])
  /\ UNCHANGED <<kind, prim, value, mutex, incs>>

\* std::lock: after a failed try_lock unlock what is held and start again.
std_lock_backoff(t) ==
  /\ stack[t] # << >>
  /\ LET f == Top(t)
     IN  /\ f.op = CombOp
         /\ f.st = "backoff"
         /\ mutex' = UnlockAll(mutex, f.cells, f.got, t)
         /\ stack' = SetTop(t, [f EXCEPT !.st = "lock", !.got = {}])
  /\ UNCHANGED <<kind, prim, value, incs>>

\* A with_exclusive that undoes the writes of an f that throws.
with_exclusive_return_rolls_back(t) ==
  /\ stack[t] # << >>
  /\ LET f == Top(t)
     IN  /\ f.op = CombOp
         /\ f.st \in {"held", "thrown"}
         /\ mutex' = UnlockAll(mutex, f.cells, f.got, t)
         /\ value' = [c \in DOMAIN value |->
               IF f.st = "thrown" /\ c \in Range(f.cells)
               THEN value[c] - f.wr ELSE value[c]]
         /\ stack' = SetTop(t, [f EXCEPT
               !.st = "done", !.got = {}, !.ph = "in", !.loc = NoLocals(f),
               !.out = Outcome(f),
               !.path = IF f.st = "thrown" THEN "unwind" ELSE "normal"])
  /\ UNCHANGED <<kind, prim, incs>>

\* A with_exclusive that calls f and returns a value-initialised result
\* instead of the one of f.
with_exclusive_return_discards(t) ==
  /\ stack[t] # << >>
  /\ LET f == Top(t)
     IN  /\ f.op = CombOp
         /\ f.st \in {"held", "thrown"}
         /\ mutex' = UnlockAll(mutex, f.cells, f.got, t)
         /\ stack' = SetTop(t, [f EXCEPT
               !.st = "done", !.got = {}, !.ph = "in", !.loc = NoLocals(f),
               !.out = IF f.st = "thrown" THEN f.err ELSE 0,
               !.path = IF f.st = "thrown" THEN "unwind" ELSE "normal"])
  /\ UNCHANGED <<kind, prim, value, incs>>

\* A with_exclusive that unlocks by hand after f has returned: nothing
\* unlocks when f throws.
with_exclusive_return_no_raii(t) ==
  /\ stack[t] # << >>
  /\ LET f == Top(t)
     IN  /\ f.op = CombOp
         /\ f.st \in {"held", "thrown"}
         /\ mutex' = IF f.st = "thrown" THEN mutex
                     ELSE UnlockAll(mutex, f.cells, f.got, t)
         /\ stack' = SetTop(t, [f EXCEPT
               !.st = "done", !.got = {}, !.ph = "in", !.loc = NoLocals(f),
               !.out = Outcome(f),
               !.path = IF f.st = "thrown" THEN "unwind" ELSE "normal"])
  /\ UNCHANGED <<kind, prim, value, incs>>

\* return std::invoke(f, values.value_...): f has returned (or thrown), the
\* local scoped_lock is destroyed.
with_exclusive_return(t) ==
  /\ stack[t] # << >>
  /\ LET f == Top(t)
     IN  /\ f.op = CombOp
         /\ f.st \in {"held", "thrown"}
         /\ mutex' = UnlockAll(mutex, f.cells, f.got, t)
         /\ stack' = SetTop(t, [f EXCEPT
               !.st = "done", !.got = {}, !.ph = "in", !.loc = NoLocals(f),
               !.out = Outcome(f),
               !.path = IF f.st = "thrown" THEN "unwind" ELSE "normal"])
  /\ UNCHANGED <<kind, prim, value, incs>>

(***************************************************************************)
(* User code: the scope of a guard, or the callback.                       *)
(***************************************************************************)
RECURSIVE Sum(_, _)
Sum(f, S) ==
  IF S = {} THEN 0
  ELSE LET x == CHOOSE y \in S : TRUE IN f[x] + Sum(f, S \ {x})

\* The increments made so far.
TotalIncs == Sum(incs, Cells)

\* copy = *guard / reading x in a callback
Read(t) ==
  /\ stack[t] # << >>
  /\ LET f == Top(t)
     IN  /\ f.st = "held"
         /\ f.ph = "in"
         /\ f.wr = 0
         /\ Len(f.cells) > 0
         /\ \A i \in 1..Len(f.cells) : Ref(f, i) # NullPtr
         /\ stack' = SetTop(t, [f EXCEPT
               !.ph = "rd",
               !.loc = [i \in 1..Len(f.cells) |-> value[Ref(f, i)]]])
  /\ UNCHANGED <<kind, prim, value, mutex, incs>>

\* *guard = copy + 1 / x = copy + 1: only through a reference to non-const T.
\* A critical section makes one increment (of every value it has access to).
Write(t) ==
  /\ stack[t] # << >>
  /\ LET f == Top(t)
         cs == {Ref(f, i) : i \in 1..Len(f.cells)}
         idx(c) == CHOOSE i \in 1..Len(f.cells) : Ref(f, i) = c
     IN  /\ f.st = "held"
         /\ f.ph = "rd"
         /\ f.op \notin ConstOps
         /\ TotalIncs + Cardinality(cs) <= MaxIncs
         /\ value' = [c \in Cells |->
               IF c \in cs THEN f.loc[idx(c)] + 1 ELSE value[c]]
         /\ incs' = [c \in Cells |->
               IF c \in cs THEN incs[c] + 1 ELSE incs[c]]
         /\ stack' = SetTop(t, [f EXCEPT !.ph = "in", !.loc = NoLocals(f),
                                         !.wr = @ + 1])
  /\ UNCHANGED <<kind, prim, mutex>>

\* throw e
Throw(t, e) ==
  /\ stack[t] # << >>
  /\ LET f == Top(t)
     IN  /\ f.st = "held"
         /\ stack' = SetTop(t, [f EXCEPT !.st = "thrown", !.err = e,
                                         !.ph = "in", !.loc = NoLocals(f)])
  /\ UNCHANGED <<kind, prim, value, mutex, incs>>

\* The caller goes on after the call (after the scope of the guard).
Continue(t) ==
  /\ stack[t] # << >>
  /\ Top(t).st = "done"
  /\ stack' = Pop(t)
  /\ UNCHANGED <<kind, prim, value, mutex, incs>>

(***************************************************************************)
(* Threads that make one call at a time.                                   *)
(***************************************************************************)
Call(t) ==
  /\ stack[t] = << >>
  /\ \/ \E c \in Cells : Guarded_with_shared(t, c)
     \/ \E c \in Cells : Guarded_with_exclusive(t, c)
     \/ \E c \in Cells : Value_with_shared(t, c)
     \/ \E c \in Cells : Value_with_exclusive(t, c)
     \/ \E cs \in CombArgs : with_exclusive(t, "inc", cs)

Step(t) ==
  \/ Call(t)
  \/ GuardedScope_ctor(t)
  \/ \E path \in {"normal", "return", "unwind"} : GuardedScope_dtor(t, path)
  \/ Value_lock(t)
  \/ Value_return(t)
  \/ scoped_lock0_ctor(t)
  \/ scoped_lock1_ctor(t)
  \/ std_lock_first(t)
  \/ std_lock_try(t)
  \/ std_lock_backoff(t)
  \/ with_exclusive_return(t)
  \/ Read(t)
  \/ Write(t)
  \/ \E e \in Errors : Throw(t, e)
  \/ Continue(t)

Next == \E t \in Threads : Step(t)

Spec == Init /\ [][Next]_vars


(***************************************************************************)
(* Two threads that call with_exclusive on the same two cells in opposite  *)
(* argument order, again and again, under a fair scheduler.                *)
(***************************************************************************)
InitComb == Init /\ kind = [c \in Cells |-> "Guarded"]

CombCall(t) ==
  /\ stack[t] = << >>
  /\ with_exclusive(t, "inc", IF t = "t1" THEN <<"a", "b">> ELSE <<"b", "a">>)

CombStep(t) ==
  \/ CombCall(t)
  \/ std_lock_first(t)
  \/ std_lock_try(t)
  \/ std_lock_backoff(t)
  \/ with_exclusive_return(t)
  \/ Read(t)
  \/ Write(t)
  \/ \E e \in Errors : Throw(t, e)
  \/ Continue(t)

NextComb == \E t \in Threads : CombStep(t)

CombSpec ==
  InitComb /\ [][NextComb]_vars /\ \A t \in Threads : SF_vars(CombStep(t))

(***************************************************************************)
(* Guarded<int, Mutex> for each of the standard mutex types: guards of     *)
(* both modes and the free function with_exclusive on one cell.            *)
(***************************************************************************)
InitTypes ==
  /\ kind = [c \in Cells |-> "Guarded"]
  /\ prim \in [Cells -> MutexTypes]
  /\ value = InitValue
  /\ mutex = [c \in Cells |-> FreeMutex]
  /\ stack = [t \in Threads |-> << >>]
  /\ incs = [c \in Cells |-> 0]

TypesCall(t) ==
  /\ stack[t] = << >>
  /\ \/ \E c \in Cells : Guarded_with_shared(t, c)
     \/ \E c \in Cells : Guarded_with_exclusive(t, c)
     \/ \E c \in Cells : with_exclusive(t, "inc", <<c>>)

TypesStep(t) ==
  \/ TypesCall(t)
  \/ GuardedScope_ctor(t)
  \/ \E path \in {"normal", "return", "unwind"} : GuardedScope_dtor(t, path)
  \/ scoped_lock1_ctor(t)
  \/ with_exclusive_return(t)
  \/ Read(t)
  \/ Write(t)
  \/ \E e \in Errors : Throw(t, e)
  \/ Continue(t)

NextTypes == \E t \in Threads : TypesStep(t)

TypesSpec == InitTypes /\ [][NextTypes]_vars

(***************************************************************************)
(* The examples of with_exclusive: the callback on v1 .. v5 of the test    *)
(* "lockables::with_exclusive" and the callback on value1, value2 of the   *)
(* README, called by two threads.                                          *)
(***************************************************************************)
ExampleCells == {"v1", "v2", "v3", "v4", "v5", "c1", "c2"}

\* Guarded<int> v1{1}, v2{2}, v3{3}; Guarded<std::string> v4{"Hello ..."};
\* Guarded<std::vector<int>> v5; Guarded<int> value1{10};
\* Guarded<std::vector<int>> value2{1, 2, 3, 4, 5}
ExampleValue ==
  [c \in ExampleCells |->
     CASE c = "v1" -> 1
       [] c = "v2" -> 2
       [] c = "v3" -> 3
       [] c = "v4" -> "Hello with_exclusive"
       [] c = "v5" -> << >>
       [] c = "c1" -> 10
       [] c = "c2" -> <<1, 2, 3, 4, 5>>]

InitExample ==
  /\ kind = [c \in ExampleCells |-> "Guarded"]
  /\ prim = [c \in ExampleCells |-> DefaultMutex]
  /\ value = ExampleValue
  /\ mutex = [c \in ExampleCells |-> FreeMutex]
  /\ stack = [t \in Threads |-> << >>]
  /\ incs = [c \in ExampleCells |-> 0]

RECURSIVE SeqSum(_)
\* std::reduce(y.begin(), y.end())
SeqSum(y) == IF y = << >> THEN 0 ELSE Head(y) + SeqSum(Tail(y))

\* [](int& x, int& y, int& z, std::string&, std::vector<int>& list)
\*   { x += 10; y -= 20; z += 30; list.push_back(x); list.push_back(y);
\*     list.push_back(z); return x + y + z; }
\* new is what the five references hold afterwards.
add_f(xs) ==
  LET x == xs[1] + 10
      y == xs[2] - 20
      z == xs[3] + 30
  IN  [new |-> <<x, y, z, xs[4], xs[5] \o <<x, y, z>>>>, ret |-> x + y + z]

\* [](int& x, std::vector<int>& y)
\*   { const int sum = std::reduce(y.begin(), y.end()) * x;
\*     for (auto& item : y) item += sum;  return sum; }
scale_f(xs) ==
  LET sum == SeqSum(xs[2]) * xs[1]
  IN  [new |-> <<xs[1], [i \in 1..Len(xs[2]) |-> xs[2][i] + sum]>>,
       ret |-> sum]

\* f was given copies: what it assigns does not reach the cells.
Store_to_copies(v, cs, new) == v

\* std::forward<ValueTypes&>(values.value_)...: the i-th parameter of f is a
\* reference to the value of the i-th cell, what f assigns to it is the
\* value of that cell.
Store(v, cs, new) ==
  [c \in DOMAIN v |->
     IF \E i \in 1..Len(cs) : cs[i] = c
     THEN new[CHOOSE i \in 1..Len(cs) : cs[i] = c]
     ELSE v[c]]

\* The body of the callback, from the values its references refer to.
Apply(t) ==
  /\ stack[t] # << >>
  /\ LET f == Top(t)
         xs == [i \in 1..Len(f.cells) |-> value[f.cells[i]]]
         r == IF f.fn = "add" THEN add_f(xs) ELSE scale_f(xs)
     IN  /\ f.op = CombOp
         /\ f.st = "held"
         /\ f.ph = "rd"
         /\ f.fn \in {"add", "scale"}
         /\ value' = Store(value, f.cells, r.new)
         /\ incs' = [incs EXCEPT ![f.cells[1]] = @ + 1]
         /\ stack' = SetTop(t, [f EXCEPT !.ph = "ran", !.wr = @ + 1,
                                         !.ret = r.ret])
  /\ UNCHANGED <<kind, prim, mutex>>

\* The calls made so far: those whose callback has run and those under way.
ExampleCalls ==
  incs["v1"] + incs["v2"] + incs["v3"] + incs["c1"]
    + Cardinality({t \in Threads : stack[t] # << >> /\ Top(t).wr = 0})

\* The three int cells in any order, then v4 and v5.
AddArgs ==
  {<<a, b, c, "v4", "v5">> :
     <<a, b, c>> \in {x \in {"v1", "v2", "v3"} \X {"v1", "v2", "v3"}
                                            \X {"v1", "v2", "v3"} :
                        x[1] # x[2] /\ x[1] # x[3] /\ x[2] # x[3]}}

ExampleCall(t) ==
  /\ stack[t] = << >>
  /\ ExampleCalls < MaxCalls
  /\ \/ \E cs \in AddArgs : with_exclusive(t, "add", cs)
     \/ with_exclusive(t, "scale", <<"c1", "c2">>)

\* The callbacks of the examples return after their last statement.
ExampleReturn(t) ==
  /\ stack[t] # << >>
  /\ Top(t).ph = "ran"
  /\ with_exclusive_return(t)

ExampleStep(t) ==
  \/ ExampleCall(t)
  \/ std_lock_first(t)
  \/ std_lock_try(t)
  \/ std_lock_backoff(t)
  \/ Read(t)
  \/ Apply(t)
  \/ ExampleReturn(t)
  \/ Continue(t)

NextExample == \E t \in Threads : ExampleStep(t)

ExampleSpec == InitExample /\ [][NextExample]_vars

(***************************************************************************)
(* Calls of with_exclusive on two cells that may be the same cell:         *)
(* with_exclusive(f, c, d) and with_exclusive(f, c, c).                    *)
(***************************************************************************)
InitRepeat ==
  /\ kind = [c \in Cells |-> "Guarded"]
  /\ prim \in [Cells -> {"mutex", "recursive_mutex"}]
  /\ value = InitValue
  /\ mutex = [c \in Cells |-> FreeMutex]
  /\ stack = [t \in Threads |-> << >>]
  /\ incs = [c \in Cells |-> 0]

RepeatCall(t) ==
  /\ stack[t] = << >>
  /\ \E c \in Cells : \E d \in Cells : with_exclusive(t, "inc", <<c, d>>)

RepeatStep(t) ==
  \/ RepeatCall(t)
  \/ std_lock_first(t)
  \/ std_lock_try(t)
  \/ std_lock_backoff(t)
  \/ with_exclusive_return(t)
  \/ Read(t)
  \/ Write(t)
  \/ \E e \in Errors : Throw(t, e)
  \/ Continue(t)

NextRepeat == \E t \in Threads : RepeatStep(t)

RepeatSpec == InitRepeat /\ [][NextRepeat]_vars

(***************************************************************************)
(* Calls made while the thread is inside the scope of a guard or inside a  *)
(* callback (the anti-patterns of the README): the cells are of one kind   *)
(* and one mutex type.                                                     *)
(***************************************************************************)
InitNest ==
  /\ kind \in {[c \in Cells |-> k] : k \in Kinds}
  /\ prim \in {[c \in Cells |-> m] : m \in MutexTypes}
  /\ value = InitValue
  /\ mutex = [c \in Cells |-> FreeMutex]
  /\ stack = [t \in Threads |-> << >>]
  /\ incs = [c \in Cells |-> 0]

\* A call from the top level, or from inside a guard's scope or a callback.
NestCall(t) ==
  /\ IF stack[t] = << >> THEN TRUE
     ELSE Top(t).st = "held" /\ Len(stack[t]) < MaxDepth
  /\ \/ \E c \in Cells : Guarded_with_shared(t, c)
     \/ \E c \in Cells : Guarded_with_exclusive(t, c)
     \/ \E c \in Cells : Value_with_shared(t, c)
     \/ \E c \in Cells : Value_with_exclusive(t, c)
     \/ \E c \in Cells : with_exclusive(t, "inc", <<c>>)

\* The lock() or lock_shared() of a reader/writer mutex by the thread that
\* owns it exclusively: the implementation may report the deadlock, and the
\* constructor of the lock object throws std::system_error.
lock_throws(t) ==
  /\ stack[t] # << >>
  /\ LET f == Top(t)
     IN  /\ f.st = "lock"
         /\ Len(f.cells) = 1
         /\ prim[f.cells[1]] \in {"shared_mutex", "shared_timed_mutex"}
         /\ mutex[f.cells[1]].owner = t
         /\ stack' = SetTop(t, [f EXCEPT
               !.st = "done", !.path = "unwind",
               !.err = "resource_deadlock_would_occur",
               !.out = "resource_deadlock_would_occur"])
  /\ UNCHANGED <<kind, prim, value, mutex, incs>>

\* The caller goes on after the call.  An exception that left the call is
\* caught in the enclosing scope or callback, or leaves that one too.
Resume(t) ==
  /\ stack[t] # << >>
  /\ Top(t).st = "done"
  /\ \/ stack' = Pop(t)
     \/ /\ Len(stack[t]) > 1
        /\ Top(t).path = "unwind"
        /\ stack' = [stack EXCEPT ![t] =
              [SubSeq(@, 1, Len(@) - 1) EXCEPT ![Len(@) - 1] =
                 [@ EXCEPT !.st = "thrown", !.err = Top(t).err]]]
  /\ UNCHANGED <<kind, prim, value, mutex, incs>>

NestStep(t) ==
  \/ NestCall(t)
  \/ GuardedScope_ctor(t)
  \/ \E path \in {"normal", "unwind"} : GuardedScope_dtor(t, path)
  \/ Value_lock(t)
  \/ Value_return(t)
  \/ scoped_lock1_ctor(t)
  \/ with_exclusive_return(t)
  \/ lock_throws(t)
  \/ Resume(t)

NextNest == \E t \in Threads : NestStep(t)

NestSpec == InitNest /\ [][NextNest]_vars

(***************************************************************************)
(* Value cells called with function objects that return a result.          *)
(***************************************************************************)
InitFn ==
  /\ kind = [c \in Cells |-> "Value"]
  /\ prim \in {[c \in Cells |-> m] : m \in {"mutex", "shared_mutex"}}
  /\ value = InitValue
  /\ mutex = [c \in Cells |-> FreeMutex]
  /\ stack = [t \in Threads |-> << >>]
  /\ incs = [c \in Cells |-> 0]

FnCall(t) ==
  /\ stack[t] = << >>
  /\ \E c \in Cells, F \in Callbacks :
       \/ Value_with_shared_f(t, c, F)
       \/ Value_with_exclusive_f(t, c, F)

\* return ...; in the function object: the result is made of what the
\* function object has of the value at that moment, a copy or its address.
f_return(t) ==
  /\ stack[t] # << >>
  /\ LET f == Top(t)
         c == f.cells[1]
         R == invoke_result_t(f.fn)
     IN  /\ f.op \in ValueOps
         /\ f.st = "held"
         /\ f.ph # "ran"
         /\ stack' = SetTop(t, [f EXCEPT
               !.ph = "ran", !.loc = NoLocals(f),
               !.ret = [type |-> R,
                        ref |-> IF f.fn.into THEN c ELSE NullPtr,
                        val |-> IF R.base = "int" THEN value[c] ELSE 0]])
  /\ UNCHANGED <<kind, prim, value, mutex, incs>>

\* The function object writes only through a T& parameter.
FnWrite(t) ==
  /\ stack[t] # << >>
  /\ Top(t).fn.param = "T&"
  /\ Write(t)

FnThrow(t) ==
  /\ stack[t] # << >>
  /\ Top(t).ph # "ran"
  /\ Throw(t, "e1")

\* std::invoke has returned or thrown.
FnReturn(t) ==
  /\ stack[t] # << >>
  /\ Top(t).st = "thrown" \/ Top(t).ph = "ran"
  /\ Value_return(t)

FnStep(t) ==
  \/ FnCall(t)
  \/ Value_lock(t)
  \/ Read(t)
  \/ FnWrite(t)
  \/ FnThrow(t)
  \/ f_return(t)
  \/ FnReturn(t)
  \/ Continue(t)

NextFn == \E t \in Threads : FnStep(t)

FnSpec == InitFn /\ [][NextFn]_vars

(***************************************************************************)
(* M reader threads, N writer threads on one cell: every writer writes     *)
(* 1..kTarget in successive with_exclusive sections, every reader polls    *)
(* with_shared until it reads a value >= kTarget.  The first frame of a    *)
(* thread is its thread function, n its loop variable i.                   *)
(***************************************************************************)
RWThreads == {"t1", "t2", "t3"}

ThreadFrame(func) ==
  [NewFrame(func, <<"a">>, "none") EXCEPT !.st = "run", !.n = 1]

\* One writer and one reader at least; the third thread is a writer, a
\* reader or absent.  TestType value; over std::mutex or std::shared_mutex.
InitRW ==
  /\ kind \in {[c \in Cells |-> k] : k \in Kinds}
  /\ prim \in {[c \in Cells |-> m] : m \in {"mutex", "shared_mutex"}}
  /\ value = [c \in Cells |-> Guarded_ctor(<< >>)]
  /\ mutex = [c \in Cells |->
                [FreeMutex EXCEPT !.shared = [t \in RWThreads |-> 0]]]
  /\ stack \in {[t \in RWThreads |->
                   IF t = "t1" THEN <<ThreadFrame("writer_func")>>
                   ELSE IF t = "t2" THEN <<ThreadFrame("reader_func")>>
                   ELSE third] :
                 third \in {<< >>, <<ThreadFrame("writer_func")>>,
                            <<ThreadFrame("reader_func")>>}}
  /\ incs = [c \in Cells |-> 0]

Runs(t, func) == stack[t] # << >> /\ stack[t][1].op = func

\* value.with_exclusive() / value.with_exclusive([i](auto& x) { x = i; })
writer_enter(t) ==
  /\ Runs(t, "writer_func")
  /\ Len(stack[t]) = 1
  /\ Top(t).st = "run"
  /\ IF kind["a"] = "Guarded" THEN Guarded_with_exclusive(t, "a")
                              ELSE Value_with_exclusive(t, "a")

\* The constructor of the lock of the call.
RWLock(t) ==
  /\ Len(stack[t]) = 2
  /\ GuardedScope_ctor(t) \/ Value_lock(t)

\* *guard = i; / x = i;
writer_assign(t) ==
  /\ Runs(t, "writer_func")
  /\ Len(stack[t]) = 2
  /\ LET f == Top(t)
     IN  /\ f.st = "held"
         /\ f.wr = 0
         /\ value' = [value EXCEPT ![Ref(f, 1)] = stack[t][1].n]
         /\ stack' = SetTop(t, [f EXCEPT !.wr = 1])
  /\ UNCHANGED <<kind, prim, mutex, incs>>

\* *guard >= kTarget / return x >= kTarget;
reader_test(t) ==
  /\ Runs(t, "reader_func")
  /\ Len(stack[t]) = 2
  /\ LET f == Top(t)
     IN  /\ f.st = "held"
         /\ f.ph = "rd"
         /\ stack' = SetTop(t, [f EXCEPT !.ph = "ran",
                                         !.ret = (f.loc[1] >= kTarget)])
  /\ UNCHANGED <<kind, prim, value, mutex, incs>>

reader_enter(t) ==
  /\ Runs(t, "reader_func")
  /\ Len(stack[t]) = 1
  /\ Top(t).st = "run"
  /\ IF kind["a"] = "Guarded" THEN Guarded_with_shared(t, "a")
                              ELSE Value_with_shared(t, "a")

reader_read(t) ==
  /\ Runs(t, "reader_func")
  /\ Len(stack[t]) = 2
  /\ Read(t)

\* The end of the scope of the guard / of the call, in either function.
RWLeave(t) ==
  /\ Len(stack[t]) = 2
  /\ Top(t).st = "held"
  /\ IF Runs(t, "writer_func") THEN Top(t).wr = 1 ELSE Top(t).ph = "ran"
  /\ \/ GuardedScope_dtor(t, IF Runs(t, "writer_func") THEN "normal"
                              ELSE IF Top(t).ret THEN "return" ELSE "normal")
     \/ Value_return(t)

\* ++i, and return 0 after kTarget writes / return i when the value read was
\* >= kTarget.
RWLoop(t) ==
  /\ Len(stack[t]) = 2
  /\ Top(t).st = "done"
  /\ LET g == stack[t][1]
         last == IF g.op = "writer_func" THEN g.n = kTarget
                                         ELSE Top(t).out
     IN  stack' = [stack EXCEPT ![t] =
           <<[g EXCEPT !.st = IF last THEN "done" ELSE "run",
                       !.n = IF g.op = "writer_func" THEN @ + 1 ELSE @]>>]
  /\ UNCHANGED <<kind, prim, value, mutex, incs>>

RWStep(t) ==
  \/ writer_enter(t)
  \/ reader_enter(t)
  \/ RWLock(t)
  \/ writer_assign(t)
  \/ reader_read(t)
  \/ reader_test(t)
  \/ RWLeave(t)
  \/ RWLoop(t)

NextRW == \E t \in RWThreads : RWStep(t)

\* Every thread that can go on does, and a thread whose lock can be acquired
\* again and again acquires it.
RWSpec ==
  /\ InitRW
  /\ [][NextRW]_vars
  /\ \A t \in RWThreads : WF_vars(RWStep(t)) /\ SF_vars(RWLock(t))

(***************************************************************************)
(* with_exclusive(f, a, b) in one thread against a thread that takes a     *)
(* guard of b and then, inside its scope, a guard of a.                    *)
(***************************************************************************)
InitMix ==
  /\ kind = [c \in Cells |-> "Guarded"]
  /\ prim \in {[c \in Cells |-> m] : m \in MutexTypes}
  /\ value = InitValue
  /\ mutex = [c \in Cells |-> FreeMutex]
  /\ stack = [t \in Threads |-> << >>]
  /\ incs = [c \in Cells |-> 0]

MixCall(t) ==
  IF t = "t1"
  THEN /\ stack[t] = << >>
       /\ \E cs \in {<<"a", "b">>, <<"b", "a">>} : with_exclusive(t, "inc", cs)
  ELSE \/ /\ stack[t] = << >>
          /\ Guarded_with_exclusive(t, "b") \/ Guarded_with_shared(t, "b")
       \/ /\ Len(stack[t]) = 1
          /\ Top(t).st = "held"
          /\ Guarded_with_exclusive(t, "a") \/ Guarded_with_shared(t, "a")

MixStep(t) ==
  \/ MixCall(t)
  \/ std_lock_first(t)
  \/ std_lock_try(t)
  \/ std_lock_backoff(t)
  \/ with_exclusive_return(t)
  \/ GuardedScope_ctor(t)
  \/ GuardedScope_dtor(t, "normal")
  \/ Read(t)
  \/ Write(t)
  \/ Continue(t)

NextMix == \E t \in Threads : MixStep(t)

MixSpec == InitMix /\ [][NextMix]_vars

(***************************************************************************)
(* Threads that hold several guards at once and take them in one order:    *)
(* value1 (a) before value2 (b).  A thread takes a guard of one cell and,  *)
(* when that cell is a, may take a guard of b inside its scope; every      *)
(* guard is destroyed at the end of its scope and the thread returns.  n   *)
(* of the thread function is 2 once the inner scope has been left.         *)
(***************************************************************************)
InitOrder ==
  /\ kind = [c \in Cells |-> "Guarded"]
  /\ prim \in {[c \in Cells |-> m] :
                 m \in {"mutex", "shared_mutex", "recursive_mutex"}}
  /\ value = InitValue
  /\ mutex = [c \in Cells |->
                [FreeMutex EXCEPT !.shared = [t \in RWThreads |-> 0]]]
  /\ stack = [t \in RWThreads |-> <<ThreadFrame("ordered_func")>>]
  /\ incs = [c \in Cells |-> 0]

\* auto guard1 = value1.with_...(); and, in its scope,
\* auto guard2 = value2.with_...();
OrderCall(t) ==
  \/ /\ Len(stack[t]) = 1
     /\ Top(t).st = "run"
     /\ \E c \in Cells : Guarded_with_exclusive(t, c) \/ Guarded_with_shared(t, c)
  \/ /\ Len(stack[t]) = 2
     /\ stack[t][1].n = 1
     /\ Top(t).st = "held"
     /\ Top(t).cells = <<"a">>
     /\ Guarded_with_exclusive(t, "b") \/ Guarded_with_shared(t, "b")

\* The end of the scope of a guard has been passed.
OrderResume(t) ==
  /\ Len(stack[t]) > 1
  /\ Top(t).st = "done"
  /\ stack' = [stack EXCEPT ![t] =
       IF Len(@) = 3 THEN <<[@[1] EXCEPT !.n = 2], @[2]>>
                     ELSE <<[@[1] EXCEPT !.st = "done"]>>]
  /\ UNCHANGED <<kind, prim, value, mutex, incs>>

\* The scopes read through their guards.
OrderUser(t) ==
  /\ Len(stack[t]) > 1
  /\ Read(t)

OrderStep(t) ==
  \/ OrderCall(t)
  \/ GuardedScope_ctor(t)
  \/ OrderUser(t)
  \/ GuardedScope_dtor(t, "normal")
  \/ OrderResume(t)

NextOrder == \E t \in RWThreads : OrderStep(t)

OrderSpec ==
  /\ InitOrder
  /\ [][NextOrder]_vars
  /\ \A t \in RWThreads : WF_vars(OrderStep(t)) /\ SF_vars(GuardedScope_ctor(t))

(***************************************************************************)
(* Guards the caller constructs itself: GuardedScope<T, Mutex> over a      *)
(* pointer (the address of a value, or nullptr) and a mutex, T const or    *)
(* not, Mutex std::mutex or std::shared_mutex.                             *)
(***************************************************************************)
InitScope ==
  /\ kind = [c \in Cells |-> "Guarded"]
  /\ prim \in [Cells -> {"mutex", "shared_mutex"}]
  /\ value = InitValue
  /\ mutex = [c \in Cells |-> FreeMutex]
  /\ stack = [t \in Threads |-> << >>]
  /\ incs = [c \in Cells |-> 0]

\* Scope scope{ptr, m}: the arguments of the constructor; m is the mutex of c
GuardedScope_new(t, ptr, c, isConst) ==
  /\ stack[t] = << >>
  /\ stack' = Push(t, [NewFrame(IF isConst THEN "GuardedScope.const"
                                           ELSE "GuardedScope",
                                <<c>>, lock_type(isConst, prim[c]))
                       EXCEPT !.arg = ptr])
  /\ UNCHANGED <<kind, prim, value, mutex, incs>>

\* The process has been ended by a signal.
Crashed == \E t \in Threads : stack[t] # << >> /\ Top(t).st = "crashed"

\* *scope where non_owning_ is nullptr: the access through the null pointer
\* ends the process (no page is mapped at address 0).
NullDeref(t) ==
  /\ stack[t] # << >>
  /\ LET f == Top(t)
     IN  /\ f.op \in GuardOps \cup ScopeOps
         /\ f.st = "held"
         /\ operator_star(f) = NullPtr
         /\ stack' = SetTop(t, [f EXCEPT !.st = "crashed"])
  /\ UNCHANGED <<kind, prim, value, mutex, incs>>

ScopeStep(t) ==
  /\ ~Crashed
  /\ \/ \E ptr \in Cells \cup {NullPtr}, c \in Cells, isConst \in BOOLEAN :
          GuardedScope_new(t, ptr, c, isConst)
     \/ GuardedScope_ctor(t)
     \/ GuardedScope_dtor(t, "normal")
     \/ Read(t)
     \/ Write(t)
     \/ NullDeref(t)
     \/ Continue(t)

NextScope == \E t \in Threads : ScopeStep(t)

ScopeSpec == InitScope /\ [][NextScope]_vars

(***************************************************************************)
(* Vocabulary of the properties.                                           *)
(***************************************************************************)
\* The number of locks thread t holds on the primitive of cell c.
Holds(t, c) ==
  (IF mutex[c].owner = t THEN mutex[c].count ELSE 0) + mutex[c].shared[t]

Frames(t) == {stack[t][i] : i \in 1..Len(stack[t])}

\* The guard is alive / the callback is running (or being unwound).
InSection(f) == f.st \in {"held", "thrown"}

ExclusiveCS(t, c) ==
  \E f \in Frames(t) :
    InSection(f) /\ f.op \notin ConstOps /\ c \in Range(f.cells)

SharedCS(t, c) ==
  \E f \in Frames(t) :
    InSection(f) /\ f.op \in ConstOps /\ c \in Range(f.cells)

\* Thread t waits in the constructor of a lock on cell c.
WaitsForCell(t, c, ops) ==
  /\ stack[t] # << >>
  /\ Top(t).st = "lock"
  /\ Top(t).op \in ops
  /\ Top(t).cells = <<c>>


(***************************************************************************)
(* Properties.                                                             *)
(***************************************************************************)
\* C1  Mutual exclusion: no two threads are at the same time inside an
\* exclusive critical section on the same cell, be it a live guard of
\* Guarded::with_exclusive, a running callback of Value::with_exclusive or a
\* running callback of the free function with_exclusive.
MutualExclusion ==
  \A c \in Cells : \A t \in Threads : \A u \in Threads \ {t} :
    ~(ExclusiveCS(t, c) /\ ExclusiveCS(u, c))

\* One thread is inside an exclusive section on a reader/writer cell while
\* the other one waits for its own exclusive guard on the same cell.
MutualExclusionWitness ==
  \E c \in Cells : \E t \in Threads : \E u \in Threads \ {t} :
    /\ prim[c] = "shared_mutex"
    /\ ExclusiveCS(t, c)
    /\ WaitsForCell(u, c, {"Guarded.with_exclusive"})

\* C2  Reader/writer safety: for every cell and every primitive, no thread is
\* inside a with_shared critical section while another thread is inside a
\* with_exclusive critical section on the same cell.
ReaderWriterSafety ==
  \A c \in Cells : \A t \in Threads : \A u \in Threads \ {t} :
    ~(SharedCS(t, c) /\ ExclusiveCS(u, c))

\* A reader is inside its section on a reader/writer cell and a writer waits.
ReaderWriterSafetyWitness ==
  \E c \in Cells : \E t \in Threads : \E u \in Threads \ {t} :
    /\ prim[c] \in {"shared_mutex", "shared_timed_mutex"}
    /\ SharedCS(t, c)
    /\ Holds(t, c) = 1
    /\ WaitsForCell(u, c, {"Guarded.with_exclusive", "Value.with_exclusive",
                           CombOp})

\* The step of thread t destroys its guard.
GuardDestroyed(t) ==
  /\ stack[t] # << >>
  /\ Top(t).op \in GuardOps
  /\ InSection(Top(t))
  /\ stack'[t] # << >>
  /\ Top(t)'.st = "done"

\* C3  Guard release: the step that destroys a guard, on each path that
\* leaves its scope (normal end, early return, unwinding), releases the one
\* lock the guard acquired, exactly once and nobody else's, and when no other
\* thread holds the cell its primitive can be acquired right away.
GuardRelease ==
  [][\A t \in Threads :
       GuardDestroyed(t) =>
         LET c == Top(t).cells[1]
         IN  /\ Holds(t, c) = 1
             /\ Holds(t, c)' = 0
             /\ \A u \in Threads \ {t} : Holds(u, c)' = Holds(u, c)
             /\ (\A u \in Threads \ {t} : Holds(u, c) = 0)
                   => can_lock(mutex[c])']_vars

\* A guard was destroyed by unwinding and the other thread has since got its
\* exclusive guard on the same cell.
GuardReleaseWitness ==
  \E c \in Cells : \E t \in Threads : \E u \in Threads \ {t} :
    /\ stack[t] # << >>
    /\ Top(t).op = "Guarded.with_exclusive"
    /\ Top(t).cells = <<c>>
    /\ Top(t).st = "done"
    /\ Top(t).path = "unwind"
    /\ stack[u] # << >>
    /\ Top(u).op = "Guarded.with_exclusive"
    /\ Top(u).cells = <<c>>
    /\ Top(u).st = "held"

\* The number of live guards and running callbacks of thread t on cell c.
Sections(t, c) ==
  Cardinality({i \in 1..Len(stack[t]) :
                 InSection(stack[t][i]) /\ c \in Range(stack[t][i].cells)})

\* The number of mutexes of cell c that calls of with_exclusive by thread t
\* hold while std::lock has not yet acquired all of them.
Acquiring(t, c) ==
  Cardinality({i \in 1..Len(stack[t]) :
                 /\ stack[t][i].st \in {"try", "backoff"}
                 /\ \E j \in stack[t][i].got : stack[t][i].cells[j] = c})

\* C4 as stated: the locks a thread holds on a cell are exactly its live
\* guards and running callbacks on the cell (so a cell without live guard and
\* without running callback has a free primitive).
GuardLockCorrespondenceOriginal ==
  \A c \in Cells : \A t \in Threads : Holds(t, c) = Sections(t, c)

\* C4  Guard/lock correspondence, amended: the locks a thread holds on a cell
\* are exactly its live guards and running callbacks on the cell plus the
\* mutexes std::lock holds for a call of with_exclusive that has not yet
\* acquired all its mutexes; a cell with none of these has a free primitive.
GuardLockCorrespondence ==
  \A c \in Cells :
    /\ \A t \in Threads : Holds(t, c) = Sections(t, c) + Acquiring(t, c)
    /\ (\A t \in Threads : Sections(t, c) + Acquiring(t, c) = 0)
          => mutex[c] = FreeMutex

\* Two live shared guards on one reader/writer cell, each owning one of the
\* two shared locks.
GuardLockCorrespondenceWitness ==
  \E c \in Cells :
    /\ \A t \in Threads :
         /\ stack[t] # << >>
         /\ Top(t).op = "Guarded.with_shared"
         /\ Top(t).cells = <<c>>
         /\ Top(t).st = "held"
    /\ \A t \in Threads : mutex[c].shared[t] = 1


\* Thread t is in the constructor of the scoped_lock of with_exclusive.
CombAcquiring(t) ==
  /\ stack[t] # << >>
  /\ Top(t).op = CombOp
  /\ Top(t).st \in {"lock", "try", "backoff"}

\* Thread t is in that constructor and cannot take a step.
CombBlocked(t) ==
  /\ CombAcquiring(t)
  /\ ~ENABLED (\/ scoped_lock0_ctor(t)
               \/ scoped_lock1_ctor(t)
               \/ std_lock_first(t)
               \/ std_lock_try(t)
               \/ std_lock_backoff(t))

\* The cell whose mutex std::lock asks for next.
Wanted(t) ==
  LET f == Top(t)
  IN  IF f.st = "lock" THEN f.cells[f.first] ELSE f.cells[NextIndex(f)]

\* C5  Deadlock-free joint acquisition: two threads that call with_exclusive
\* on the same set of cells, in whatever argument orders, are never both
\* blocked, each waiting for a primitive the other one holds.
NoCombDeadlock ==
  \A t \in Threads : \A u \in Threads \ {t} :
    ~(/\ CombBlocked(t)
      /\ CombBlocked(u)
      /\ Range(Top(t).cells) = Range(Top(u).cells)
      /\ Holds(u, Wanted(t)) > 0
      /\ Holds(t, Wanted(u)) > 0)

\* The calls (a, b) and (b, a) have each locked their first mutex and are
\* about to ask for the one the other holds.
NoCombDeadlockWitness ==
  \E t \in Threads : \E u \in Threads \ {t} :
    /\ CombAcquiring(t) /\ Top(t).cells = <<"a", "b">>
    /\ CombAcquiring(u) /\ Top(u).cells = <<"b", "a">>
    /\ Top(t).st = "try" /\ Holds(t, "a") = 1 /\ Wanted(t) = "b"
    /\ Top(u).st = "try" /\ Holds(u, "b") = 1 /\ Wanted(u) = "a"

InCall(t) == stack[t] # << >> /\ Top(t).st # "done"
Returned(t) == stack[t] # << >> /\ Top(t).st = "done"
BackingOff(t) == stack[t] # << >> /\ Top(t).st = "backoff"

\* C6 as stated: under a fair scheduler every call of with_exclusive (the
\* threads call it on the same two cells in opposite order, again and again)
\* acquires its mutexes, runs its callback and returns.
CombTermination == \A t \in Threads : InCall(t) ~> Returned(t)

\* C6  Termination of the combinator, amended: under a fair scheduler every
\* call of with_exclusive either returns or finds a mutex taken and backs
\* off for another round; no call stays blocked for ever.
CombProgress ==
  \A t \in Threads : InCall(t) ~> (Returned(t) \/ BackingOff(t))

\* One call has returned after incrementing both values while the call in
\* the opposite order, which has backed off, is in a later round (a round
\* that starts with the mutex the try_lock failed on).
CombProgressWitness ==
  \E t \in Threads : \E u \in Threads \ {t} :
    /\ Returned(t) /\ Top(t).path = "normal" /\ Top(t).wr = 1
    /\ CombAcquiring(u) /\ Top(u).st = "lock" /\ Top(u).first = 2

\* C7  Atomic joint view: while the callback of with_exclusive(f, c1..cN)
\* runs, the calling thread owns the mutex of each of the N cells exclusively
\* (whatever the primitives are), and no other thread holds a shared or
\* exclusive lock on, or is inside a critical section of, any of them.
AtomicJointView ==
  \A t \in Threads :
    (stack[t] # << >> /\ Top(t).op = CombOp /\ InSection(Top(t))) =>
      \A i \in 1..Len(Top(t).cells) :
        LET c == Top(t).cells[i]
        IN  /\ mutex[c].owner = t
            /\ mutex[c].count = 1
            /\ NoReaders(mutex[c])
            /\ \A u \in Threads \ {t} :
                 Holds(u, c) = 0 /\ ~SharedCS(u, c) /\ ~ExclusiveCS(u, c)

\* The callback runs on a plain and a reader/writer cell, has read both
\* values, and a reader waits for one of the cells.
AtomicJointViewWitness ==
  \E t \in Threads : \E u \in Threads \ {t} :
    /\ stack[t] # << >>
    /\ Top(t).op = CombOp
    /\ Top(t).cells = <<"a", "b">>
    /\ prim["a"] = "mutex"
    /\ prim["b"] = "shared_mutex"
    /\ Top(t).st = "held"
    /\ Top(t).ph = "rd"
    /\ WaitsForCell(u, "b", {"Guarded.with_shared"})

\* C8  Callback failure on a Value cell: when a call of Value::with_shared or
\* Value::with_exclusive has left by an exception, the caller holds no lock
\* on the cell, and the exception it sees is the one the callback threw.
ValueFailureReleases ==
  \A t \in Threads :
    (/\ stack[t] # << >>
     /\ Top(t).op \in ValueOps
     /\ Top(t).st = "done"
     /\ Top(t).path = "unwind") =>
       /\ Holds(t, Top(t).cells[1]) = 0
       /\ Top(t).err \in Errors
       /\ Top(t).out = Top(t).err

\* A callback of Value::with_exclusive threw e2, the caller has seen e2, and
\* the other thread is now inside its own callback on the same cell.
ValueFailureReleasesWitness ==
  \E t \in Threads : \E u \in Threads \ {t} :
    /\ stack[t] # << >>
    /\ Top(t).op = "Value.with_exclusive"
    /\ Top(t).st = "done"
    /\ Top(t).out = "e2"
    /\ stack[u] # << >>
    /\ Top(u).op = "Value.with_exclusive"
    /\ Top(u).cells = Top(t).cells
    /\ Top(u).st = "held"

\* C9  Callback failure in the combinator: when a call of with_exclusive has
\* left by an exception, the caller holds none of the N mutexes, and each of
\* them that no other thread has taken since can be locked.
CombFailureReleases ==
  \A t \in Threads :
    (/\ stack[t] # << >>
     /\ Top(t).op = CombOp
     /\ Top(t).st = "done"
     /\ Top(t).path = "unwind") =>
       \A c \in Range(Top(t).cells) :
         /\ Holds(t, c) = 0
         /\ (\A u \in Threads \ {t} : Holds(u, c) = 0) => can_lock(mutex[c])

\* A call on two cells has left by an exception and the other thread has
\* since locked both cells with its own call.
CombFailureReleasesWitness ==
  \E t \in Threads : \E u \in Threads \ {t} :
    /\ stack[t] # << >>
    /\ Top(t).op = CombOp
    /\ Top(t).cells = <<"a", "b">>
    /\ Top(t).st = "done"
    /\ Top(t).path = "unwind"
    /\ stack[u] # << >>
    /\ Top(u).op = CombOp
    /\ Top(u).cells = <<"b", "a">>
    /\ Top(u).st = "held"

AllFinished == \A t \in Threads : stack[t] = << >> \/ Top(t).st = "done"

\* C10  No lost updates: when all threads have finished, the value of every
\* cell is its initial value plus the number of increments made to it, each
\* in its own exclusive critical section.
NoLostUpdates ==
  AllFinished => \A c \in Cells : value[c] = InitValue[c] + incs[c]

\* Both threads have finished an exclusive critical section in which they
\* incremented the same reader/writer cell.
NoLostUpdatesWitness ==
  \E c \in Cells :
    /\ prim[c] = "shared_mutex"
    /\ \A t \in Threads :
         /\ stack[t] # << >>
         /\ Top(t).st = "done"
         /\ Top(t).cells = <<c>>
         /\ Top(t).wr = 1
    /\ value[c] = InitValue[c] + 2

\* The guard on top of the stack of thread t, of the given accessor.
GuardOf(t, op) == stack[t] # << >> /\ Top(t).op = op

\* C11  Lock selection for Guarded: a guard of with_shared is a shared
\* acquisition exactly when the primitive is std::shared_mutex or
\* std::shared_timed_mutex, and an exclusive one for std::mutex,
\* std::timed_mutex, std::recursive_mutex and std::recursive_timed_mutex; a
\* guard of with_exclusive is an exclusive acquisition for every primitive;
\* and this is so in every state, whatever the other thread does.
GuardedLockSelection ==
  \A t \in Threads :
    (stack[t] # << >> /\ Top(t).op \in GuardOps) =>
      LET f == Top(t)
          c == f.cells[1]
          shared == /\ f.op = "Guarded.with_shared"
                    /\ prim[c] \in {"shared_mutex", "shared_timed_mutex"}
      IN  /\ prim[c] \in MutexTypes
          /\ f.lk = IF shared THEN "shared_lock" ELSE "scoped_lock"
          /\ InSection(f) =>
                IF shared
                THEN mutex[c].shared[t] = 1 /\ mutex[c].owner = NoThread
                ELSE /\ mutex[c].owner = t
                     /\ mutex[c].count = 1
                     /\ NoReaders(mutex[c])

\* A live with_shared guard holds a std::shared_timed_mutex shared while the
\* with_shared guard of the other thread owns a std::recursive_timed_mutex.
GuardedLockSelectionWitness ==
  \E t \in Threads : \E u \in Threads \ {t} :
    /\ GuardOf(t, "Guarded.with_shared") /\ Top(t).st = "held"
    /\ prim[Top(t).cells[1]] = "shared_timed_mutex"
    /\ mutex[Top(t).cells[1]].shared[t] = 1
    /\ GuardOf(u, "Guarded.with_shared") /\ Top(u).st = "held"
    /\ prim[Top(u).cells[1]] = "recursive_timed_mutex"
    /\ mutex[Top(u).cells[1]].owner = u

\* C12  A plain primitive serialises everything: on a cell whose primitive is
\* std::mutex at most one thread at a time is inside a critical section of
\* any kind, so two with_shared critical sections never overlap.
PlainSerialises ==
  \A c \in Cells :
    prim[c] = "mutex" =>
      \A t \in Threads : \A u \in Threads \ {t} :
        ~(Sections(t, c) > 0 /\ Sections(u, c) > 0)

\* A thread is inside a with_shared section on a std::mutex cell and the
\* with_shared call of the other thread on the same cell cannot get the lock.
PlainSerialisesWitness ==
  \E c \in Cells : \E t \in Threads : \E u \in Threads \ {t} :
    /\ prim[c] = "mutex"
    /\ SharedCS(t, c)
    /\ WaitsForCell(u, c, ConstOps)
    /\ ~LockCanAcquire(Top(u).lk, mutex[c])

\* Thread t has a live with_shared guard on cell c and thread u is in the
\* constructor of its own with_shared guard on c.
ReaderMeetsReader(t, u, c) ==
  /\ kind[c] = "Guarded"
  /\ GuardOf(t, "Guarded.with_shared")
  /\ Top(t).cells = <<c>>
  /\ InSection(Top(t))
  /\ WaitsForCell(u, c, {"Guarded.with_shared"})

\* C13  Concurrent readers are possible: on a Guarded cell whose primitive is
\* std::shared_mutex a live with_shared guard of one thread never keeps
\* another thread from getting its own with_shared guard on the cell (so
\* that the state in which both hold one is reachable).
ConcurrentReaders ==
  \A c \in Cells : \A t \in Threads : \A u \in Threads \ {t} :
    (prim[c] = "shared_mutex" /\ ReaderMeetsReader(t, u, c)) =>
      ENABLED GuardedScope_ctor(u)

\* Two threads hold a with_shared guard on the same std::shared_mutex cell of
\* kind Guarded at the same time.
ConcurrentReadersWitness ==
  \E c \in Cells :
    /\ kind[c] = "Guarded"
    /\ prim[c] = "shared_mutex"
    /\ \A t \in Threads :
         /\ GuardOf(t, "Guarded.with_shared")
         /\ Top(t).cells = <<c>>
         /\ Top(t).st = "held"
         /\ Holds(t, c) = 1

\* C14 as stated: on a Value cell whose primitive is std::shared_mutex or
\* std::shared_timed_mutex the callback of with_shared runs under a shared
\* acquisition, and a with_shared call of another thread on the cell can
\* acquire the lock while it runs.
ValueSharedSelection ==
  \A c \in Cells : \A t \in Threads : \A u \in Threads \ {t} :
    (/\ kind[c] = "Value"
     /\ prim[c] \in {"shared_mutex", "shared_timed_mutex"}
     /\ GuardOf(t, "Value.with_shared")
     /\ Top(t).cells = <<c>>
     /\ InSection(Top(t))) =>
       /\ mutex[c].shared[t] = 1
       /\ mutex[c].owner = NoThread
       /\ WaitsForCell(u, c, {"Value.with_shared"}) => ENABLED Value_lock(u)

\* C15 as stated: on a Guarded cell with the default primitive a live
\* with_shared guard of one thread does not keep another thread from getting
\* its own with_shared guard (several readers at a time), while a
\* with_exclusive guard is held by one thread only and excludes the readers.
DefaultGuardedReaders ==
  \A c \in Cells : \A t \in Threads : \A u \in Threads \ {t} :
    (kind[c] = "Guarded" /\ prim[c] = DefaultMutex) =>
      /\ ReaderMeetsReader(t, u, c) => ENABLED GuardedScope_ctor(u)
      /\ ~(ExclusiveCS(t, c) /\ (ExclusiveCS(u, c) \/ SharedCS(u, c)))

\* The step of thread t is the return of its call of with_exclusive.
CombReturns(t) ==
  /\ stack[t] # << >>
  /\ Top(t).op = CombOp
  /\ Top(t).st = "held"
  /\ stack'[t] # << >>
  /\ Top(t)'.st = "done"

\* C16  Combinator data flow: when with_exclusive(f, c1 .. c5) returns, f
\* (x += 10, y -= 20, z += 30, push x, y, z to the list, return x + y + z)
\* has run once, on the cells in the order they were passed: every cell holds
\* what f made of the value it had when f was invoked, and the call returns
\* the result of f; from 1, 2, 3 that is 26 and 11, -18, 33.
CombDataFlow ==
  [][\A t \in Threads :
       (CombReturns(t) /\ Top(t).fn = "add") =>
         LET f == Top(t)
             x == f.loc[1] + 10
             y == f.loc[2] - 20
             z == f.loc[3] + 30
         IN  /\ f.wr = 1
             /\ value'[f.cells[1]] = x
             /\ value'[f.cells[2]] = y
             /\ value'[f.cells[3]] = z
             /\ value'[f.cells[4]] = f.loc[4]
             /\ value'[f.cells[5]] = f.loc[5] \o <<x, y, z>>
             /\ Top(t)'.out = x + y + z
             /\ (f.loc[1] = 1 /\ f.loc[2] = 2 /\ f.loc[3] = 3) =>
                   /\ Top(t)'.out = 26
                   /\ value'[f.cells[1]] = 11
                   /\ value'[f.cells[2]] = -18
                   /\ value'[f.cells[3]] = 33]_vars

\* The call on v1, v2, v3, v4, v5 has returned 26 and left 11, -18, 33 and
\* the list 11, -18, 33.
CombDataFlowWitness ==
  \E t \in Threads :
    /\ Returned(t)
    /\ Top(t).fn = "add"
    /\ Top(t).cells = <<"v1", "v2", "v3", "v4", "v5">>
    /\ Top(t).out = 26
    /\ value["v1"] = 11 /\ value["v2"] = -18 /\ value["v3"] = 33
    /\ value["v5"] = <<11, -18, 33>>

\* The step of thread t is the return of the call of the README example,
\* whose callback was invoked with c1 holding 10 and c2 holding 1 .. 5.
Example150Returns(t) ==
  /\ CombReturns(t)
  /\ Top(t).fn = "scale"
  /\ Top(t).cells = <<"c1", "c2">>
  /\ Top(t).loc = <<10, <<1, 2, 3, 4, 5>>>>

\* C17 as stated: with c1 holding 10 and c2 holding 1, 2, 3, 4, 5 the call of
\* with_exclusive with f(x, y) = (sum = reduce(y) * x; add sum to every
\* element of y; return sum) returns 150 and leaves c2 equal to
\* 31, 32, 33, 34, 35.
CombExample150Original ==
  [][\A t \in Threads :
       Example150Returns(t) =>
         /\ Top(t)'.out = 150
         /\ value'["c2"] = <<31, 32, 33, 34, 35>>]_vars

\* C17  End-to-end example, amended: that call returns 150 and leaves c2
\* equal to 151, 152, 153, 154, 155 (150 added to each of 1 .. 5) and c1
\* equal to 10.
CombExample150 ==
  [][\A t \in Threads :
       Example150Returns(t) =>
         /\ Top(t)'.out = 150
         /\ value'["c2"] = <<151, 152, 153, 154, 155>>
         /\ value'["c1"] = 10]_vars

\* The call has returned 150 and c2 holds 151 .. 155.
CombExample150Witness ==
  \E t \in Threads :
    /\ Returned(t)
    /\ Top(t).fn = "scale"
    /\ Top(t).cells = <<"c1", "c2">>
    /\ Top(t).out = 150
    /\ value["c2"] = <<151, 152, 153, 154, 155>>

\* C18  Read-after-write: what a with_shared critical section reads from a
\* cell is the value the cell has, which is the constructed value changed by
\* every with_exclusive critical section made on the cell so far (here each
\* adds one), all of them completed: none is under way while the reader is
\* inside.
ReadAfterWrite ==
  \A c \in Cells : \A t \in Threads :
    (/\ stack[t] # << >>
     /\ Top(t).op \in ConstOps
     /\ Top(t).cells = <<c>>
     /\ Top(t).st = "held"
     /\ Top(t).ph = "rd") =>
       /\ Top(t).loc[1] = value[c]
       /\ Top(t).loc[1] = InitValue[c] + incs[c]
       /\ \A u \in Threads \ {t} : ~ExclusiveCS(u, c)

\* A with_shared section on a reader/writer cell has read the constructed
\* value plus two, after two with_exclusive sections have incremented it.
ReadAfterWriteWitness ==
  \E c \in Cells : \E t \in Threads :
    /\ prim[c] = "shared_mutex"
    /\ stack[t] # << >>
    /\ Top(t).op \in ConstOps
    /\ Top(t).cells = <<c>>
    /\ Top(t).ph = "rd"
    /\ incs[c] = 2
    /\ Top(t).loc[1] = InitValue[c] + 2

\* The call of thread t is with_exclusive(f) with no cells.
ZeroCellCall(t) ==
  stack[t] # << >> /\ Top(t).op = CombOp /\ Top(t).cells = << >>

\* C19  Zero-cell combinator call: with_exclusive(f) with no cells acquires no
\* primitive (the caller holds no lock at any point of the call) and never
\* waits for one, whatever is locked by others; f is invoked with no
\* arguments and the call returns what f returned.
ZeroCellNoLock ==
  \A t \in Threads :
    ZeroCellCall(t) =>
      /\ Top(t).got = {}
      /\ \A c \in Cells : Holds(t, c) = 0
      /\ Top(t).st = "lock" => ENABLED scoped_lock0_ctor(t)
      /\ Top(t).st \in {"lock", "held", "thrown", "done"}
      /\ Top(t).loc = << >>
      /\ (Top(t).st = "done" /\ Top(t).path = "normal") =>
            Top(t).out = Top(t).ret

\* The callback of a call with no cells runs while the other thread is
\* inside the callback of a call that holds both cells.
ZeroCellNoLockWitness ==
  \E t \in Threads : \E u \in Threads \ {t} :
    /\ ZeroCellCall(t)
    /\ Top(t).st = "held"
    /\ stack[u] # << >>
    /\ Top(u).op = CombOp
    /\ Top(u).cells = <<"a", "b">>
    /\ Top(u).st = "held"
    /\ \A c \in Cells : mutex[c].owner = u

\* C20 as stated: a call of with_exclusive that is passed the same cell twice
\* does not acquire the primitive of that cell twice, and is never in the
\* position of asking for a primitive it holds itself.
RepeatedCellOnce ==
  \A t \in Threads :
    (stack[t] # << >> /\ Top(t).op = CombOp) =>
      /\ \A c \in Range(Top(t).cells) : Holds(t, c) <= 1
      /\ Top(t).st = "try" => Holds(t, Wanted(t)) = 0

\* C21 as stated: a thread that holds a lock on a cell and calls with_shared
\* or with_exclusive on the same cell never obtains a second lock on it,
\* whatever the primitive and whatever the two modes.
NoRecursiveLockingOriginal ==
  \A t \in Threads : \A c \in Cells : Holds(t, c) <= 1

\* C21  No recursive locking, amended: a thread never holds two locks on a
\* cell whose primitive is std::mutex or std::timed_mutex, and on a cell
\* whose primitive is std::shared_mutex or std::shared_timed_mutex it never
\* holds a second lock next to an exclusive one (only with a recursive mutex,
\* or for two shared acquisitions, can the second lock be obtained).
NoRecursiveLocking ==
  \A t \in Threads : \A c \in Cells :
    Holds(t, c) > 1 =>
      \/ prim[c] \in {"recursive_mutex", "recursive_timed_mutex"}
      \/ /\ prim[c] \in {"shared_mutex", "shared_timed_mutex"}
         /\ mutex[c].owner # t
         /\ mutex[c].shared[t] = Holds(t, c)

\* A thread holds a with_shared guard on a std::shared_mutex cell and is
\* stuck in its own call of with_exclusive on that cell, with nobody else
\* around.
NoRecursiveLockingWitness ==
  \E t \in Threads : \E c \in Cells :
    /\ prim[c] = "shared_mutex"
    /\ Len(stack[t]) = 2
    /\ stack[t][1].op = "Guarded.with_shared"
    /\ stack[t][1].cells = <<c>>
    /\ Top(t).op = "Guarded.with_exclusive"
    /\ Top(t).cells = <<c>>
    /\ Top(t).st = "lock"
    /\ ~ENABLED NestStep(t)
    /\ \A u \in Threads \ {t} : stack[u] = << >>

\* Thread t holds the guard of with_exclusive() on cell c and has called op
\* on c from inside the scope of that guard.
RecursiveCall(t, c, op) ==
  /\ Len(stack[t]) >= 2
  /\ stack[t][1].op = "Guarded.with_exclusive"
  /\ stack[t][1].cells = <<c>>
  /\ stack[t][2].op = op
  /\ stack[t][2].cells = <<c>>

\* C22  Recursive guard on a Guarded with the default primitive: a call of
\* with_shared(), of with_exclusive() or of the free function with_exclusive
\* on the cell, made by the thread that holds the guard of with_exclusive()
\* on it, is for ever in the constructor of its lock: it never gets the lock
\* and never returns, and the thread can take no step.
RecursiveGuardDeadlock ==
  \A t \in Threads : \A c \in Cells :
    \A op \in {"Guarded.with_shared", "Guarded.with_exclusive", CombOp} :
      (prim[c] = DefaultMutex /\ RecursiveCall(t, c, op)) =>
        /\ stack[t][2].st = "lock"
        /\ Len(stack[t]) = 2
        /\ Holds(t, c) = 1
        /\ ~ENABLED NestStep(t)

\* The thread that holds the guard is in the free function with_exclusive on
\* the same cell, while the other thread waits for the cell as well.
RecursiveGuardDeadlockWitness ==
  \E t \in Threads : \E u \in Threads \ {t} : \E c \in Cells :
    /\ prim[c] = DefaultMutex
    /\ RecursiveCall(t, c, CombOp)
    /\ WaitsForCell(u, c, {"Guarded.with_shared"})

\* Thread t holds the guard of c.with_exclusive() and is in the constructor
\* of the guard of d.with_exclusive().
HoldsAndWaits(t, c, d) ==
  /\ Len(stack[t]) = 2
  /\ stack[t][1].op = "Guarded.with_exclusive"
  /\ stack[t][1].cells = <<c>>
  /\ stack[t][1].st = "held"
  /\ stack[t][2].op = "Guarded.with_exclusive"
  /\ stack[t][2].cells = <<d>>
  /\ stack[t][2].st = "lock"

\* C23  Ad hoc multi-guard deadlock: when one thread holds the guard of
\* value1.with_exclusive() and is in value2.with_exclusive() while the other
\* holds the guard of value2 and is in value1.with_exclusive(), neither can
\* take a step (and that state is reachable).
AdHocDeadlock ==
  \A t \in Threads : \A u \in Threads \ {t} :
    (HoldsAndWaits(t, "a", "b") /\ HoldsAndWaits(u, "b", "a")) =>
      ~ENABLED NestStep(t) /\ ~ENABLED NestStep(u)

\* The two threads hold one Guarded<int> each and wait for the other one.
AdHocDeadlockWitness ==
  /\ prim["a"] = DefaultMutex
  /\ HoldsAndWaits("t1", "a", "b")
  /\ HoldsAndWaits("t2", "b", "a")
  /\ mutex["a"].owner = "t1"
  /\ mutex["b"].owner = "t2"

\* C24  Accessors never return without the lock: once Guarded::with_shared()
\* or with_exclusive() has returned, the guard is true and refers to the
\* value of the cell and the caller holds the lock it asked for; a caller
\* that cannot acquire the lock can do nothing at all (no timeout, no failure
\* return), and a call is left only through the destructor of its guard.
AccessorsReturnLocked ==
  \A t \in Threads :
    (stack[t] # << >> /\ Top(t).op \in GuardOps) =>
      LET f == Top(t)
          c == f.cells[1]
          m == mutex[c]
      IN  /\ (f.st = "lock" /\ ~LockCanAcquireBy(f.lk, m, t, prim[c]))
                => ~ENABLED Step(t)
          /\ InSection(f) =>
                /\ operator_bool(f)
                /\ operator_star(f) = c
                /\ IF f.lk = "shared_lock" THEN m.shared[t] = 1
                                           ELSE m.owner = t /\ m.count = 1
          /\ f.st = "done" => f.path \in {"normal", "return", "unwind"}

\* One thread is in its guard of a.with_exclusive() while the other is kept
\* in a.with_shared().
AccessorsReturnLockedWitness ==
  /\ stack["t1"] # << >>
  /\ Top("t1").op = "Guarded.with_exclusive"
  /\ Top("t1").cells = <<"a">>
  /\ Top("t1").st = "held"
  /\ stack["t2"] # << >>
  /\ Top("t2").op = "Guarded.with_shared"
  /\ Top("t2").cells = <<"a">>
  /\ Top("t2").st = "lock"
  /\ ~ENABLED Step("t2")

\* C25  Guard truthiness and identity: a GuardedScope that has been
\* constructed is true exactly when the pointer it was constructed with is
\* not null; dereferencing a true guard yields the very object that pointer
\* points to, and reading through it yields the value of that object; for T
\* const and not const, over std::mutex and std::shared_mutex.
GuardTruthAndIdentity ==
  [][\A t \in Threads :
       (stack'[t] # << >>) =>
         LET g == stack'[t][Len(stack'[t])]
         IN  (g.op \in ScopeOps /\ g.st = "held") =>
               /\ operator_bool(g) <=> (g.arg # NullPtr)
               /\ operator_bool(g) => operator_star(g) = g.arg
               /\ (stack[t] # << >> /\ Top(t).st = "held"
                     /\ Top(t).ph = "in" /\ g.ph = "rd")
                    => g.loc[1] = value[g.arg]]_vars

\* A true GuardedScope<const int, std::shared_mutex> over &b and the mutex of
\* a has been read through, next to a false GuardedScope<int, std::mutex>.
GuardTruthAndIdentityWitness ==
  /\ prim["a"] = "shared_mutex"
  /\ prim["b"] = "mutex"
  /\ stack["t1"] # << >>
  /\ Top("t1").op = "GuardedScope.const"
  /\ Top("t1").cells = <<"a">>
  /\ Top("t1").arg = "b"
  /\ Top("t1").st = "held"
  /\ Top("t1").ph = "rd"
  /\ Top("t1").loc[1] = value["b"]
  /\ operator_bool(Top("t1"))
  /\ stack["t2"] # << >>
  /\ Top("t2").op = "GuardedScope"
  /\ Top("t2").cells = <<"b">>
  /\ Top("t2").arg = NullPtr
  /\ Top("t2").st = "held"
  /\ ~operator_bool(Top("t2"))

RefResultRejected ==
  \A t \in Threads : \A f \in Frames(t) :
    f.op \in ValueOps =>
      LET R == invoke_result_t(f.fn)
      IN  /\ ~is_reference_v(R)
          /\ ~is_pointer_v(R)
          /\ (f.st = "done" /\ f.path = "normal") => f.out.type = R

\* t1 has been given a std::reference_wrapper to the value of a by
\* a.with_exclusive(f) and the mutex of a is free again, while the same call
\* with a function object that returns int& is not accepted from t2.
RefResultRejectedWitness ==
  /\ stack["t1"] # << >>
  /\ Top("t1").op = "Value.with_exclusive"
  /\ Top("t1").st = "done"
  /\ Top("t1").path = "normal"
  /\ Top("t1").out.type.base = "reference_wrapper"
  /\ Top("t1").out.ref = "a"
  /\ mutex["a"] = FreeMutex
  /\ stack["t2"] = << >>
  /\ ~ENABLED Value_with_exclusive_f("t2", "a",
        [param |-> "T&", into |-> TRUE,
         result |-> [base |-> "int", form |-> "lref", const |-> FALSE]])
  /\ ~ENABLED Value_with_shared_f("t2", "a",
        [param |-> "const T&", into |-> TRUE,
         result |-> [base |-> "int", form |-> "pointer", const |-> TRUE]])

\* C27 as stated: no call on a Value cell hands the caller a reference or
\* pointer to the protected value that outlives the lock.
NoReferenceEscapes ==
  \A t \in Threads : \A f \in Frames(t) :
    (f.op \in ValueOps /\ f.st = "done" /\ f.path = "normal") =>
      f.out.ref = NullPtr

\* C28  Frame of the accessors: no step changes what kind of cell a cell is
\* or its mutex type; a step that changes the state of a mutex (a lock or an
\* unlock) changes no value; no step of a thread that is in with_shared
\* changes a value; and a value changes only in a step of a thread that is in
\* the guard of with_exclusive, in the function object of Value::with_exclusive
\* or in the callback of the free with_exclusive, on that cell, holding its
\* mutex exclusively.
FrameOfAccessors ==
  [][/\ kind' = kind
     /\ prim' = prim
     /\ mutex' # mutex => value' = value
     /\ \A t \in Threads :
          (stack[t] # << >> /\ stack'[t] # stack[t]
             /\ Top(t).op \in {"Guarded.with_shared", "Value.with_shared"})
            => value' = value
     /\ \A c \in Cells :
          value'[c] # value[c] =>
            \E t \in Threads :
              /\ stack[t] # << >>
              /\ stack'[t] # stack[t]
              /\ Top(t).op \in {"Guarded.with_exclusive",
                                "Value.with_exclusive", CombOp}
              /\ Top(t).st = "held"
              /\ c \in Range(Top(t).cells)
              /\ mutex[c].owner = t
              /\ mutex' = mutex]_vars

\* The value of a has been written in a.with_exclusive() while the other
\* thread has read b in b.with_shared().
FrameOfAccessorsWitness ==
  /\ value["a"] # InitValue["a"]
  /\ value["b"] = InitValue["b"]
  /\ stack["t1"] # << >>
  /\ Top("t1").op = "Guarded.with_exclusive"
  /\ Top("t1").cells = <<"a">>
  /\ Top("t1").st = "held"
  /\ Top("t1").wr = 1
  /\ stack["t2"] # << >>
  /\ Top("t2").op \in {"Guarded.with_shared", "Value.with_shared"}
  /\ Top("t2").cells = <<"b">>
  /\ Top("t2").st = "held"
  /\ Top("t2").ph = "rd"

\* C29  Callback cell hold duration: in a call of Value::with_shared(f) or
\* Value::with_exclusive(f), f has not been invoked before the lock is held;
\* while f runs and after it has produced its result, until the call returns,
\* f has been invoked once and the thread holds the lock of the cell in the
\* mode of the call; when the call has returned normally, f has been invoked
\* exactly once, the call has returned the result f produced, and the thread
\* holds no lock on the cell.
CallbackHoldDuration ==
  \A t \in Threads :
    (stack[t] # << >> /\ Top(t).op \in ValueOps) =>
      LET f == Top(t)
          c == f.cells[1]
          m == mutex[c]
      IN  /\ f.st = "lock" => f.n = 0
          /\ f.st = "held" =>
                /\ f.n = 1
                /\ IF f.lk = "shared_lock" THEN m.shared[t] = 1
                                           ELSE m.owner = t /\ m.count = 1
          /\ (f.st = "done" /\ f.path = "normal") =>
                /\ f.n = 1
                /\ f.out = f.ret
                /\ f.out.type = invoke_result_t(f.fn)
                /\ Holds(t, c) = 0

\* a.with_exclusive(f) has returned the int that f made after f had written
\* the value, and the mutex of a is free.
CallbackHoldDurationWitness ==
  /\ stack["t1"] # << >>
  /\ Top("t1").op = "Value.with_exclusive"
  /\ Top("t1").cells = <<"a">>
  /\ Top("t1").st = "done"
  /\ Top("t1").path = "normal"
  /\ Top("t1").wr = 1
  /\ Top("t1").n = 1
  /\ Top("t1").out.type.base = "int"
  /\ Top("t1").out.val = InitValue["a"] + 1
  /\ mutex["a"] = FreeMutex

\* C30  Construction: while no call has written anything and no other call
\* is under way, a cell holds the value built from its constructor arguments
\* (0, the value-initialised int, for a, which was constructed without
\* arguments; 1 for b, which was constructed from 1) and its mutex is free
\* when nobody is in a call; the constructor of the lock of a call of
\* with_shared or with_exclusive on it can then complete at once, and what
\* the call reads is that value.
Construction ==
  /\ ((\A t \in Threads : stack[t] = << >>) /\ TotalIncs = 0) =>
        /\ value = [c \in Cells |-> IF c = "a" THEN 0 ELSE 1]
        /\ mutex = [c \in Cells |-> FreeMutex]
  /\ \A t \in Threads :
       (/\ TotalIncs = 0
        /\ \A u \in Threads \ {t} : stack[u] = << >>
        /\ stack[t] # << >>
        /\ Top(t).op \in GuardOps \cup ValueOps) =>
          LET f == Top(t)
              c == f.cells[1]
          IN  /\ f.st = "lock" =>
                   /\ mutex[c] = FreeMutex
                   /\ ENABLED (GuardedScope_ctor(t) \/ Value_lock(t))
              /\ f.ph = "rd" => f.loc[1] = (IF c = "a" THEN 0 ELSE 1)

\* The first call on b, a with_shared, has read the 1 that b was constructed
\* from.
ConstructionWitness ==
  /\ TotalIncs = 0
  /\ stack["t2"] = << >>
  /\ stack["t1"] # << >>
  /\ Top("t1").op \in {"Guarded.with_shared", "Value.with_shared"}
  /\ Top("t1").cells = <<"b">>
  /\ Top("t1").st = "held"
  /\ Top("t1").ph = "rd"
  /\ Top("t1").loc = <<1>>

\* The thread function of t has returned (or t was never started).
RWFinished(t) ==
  stack[t] = << >> \/ (Len(stack[t]) = 1 /\ Top(t).st = "done")

RWAllFinished == \A t \in RWThreads : RWFinished(t)

WritersFinished ==
  \A t \in RWThreads : Runs(t, "writer_func") => RWFinished(t)

RWReaders == {t \in RWThreads : Runs(t, "reader_func")}

\* C31 as stated: with W >= 1 writers and R >= 1 readers on one cell, over
\* std::mutex and over std::shared_mutex, every writer and every reader
\* terminates under fair scheduling.
ReadersWritersTerminate == <>RWAllFinished

\* C31  Readers and writers make progress, as the code has it: once all
\* writers have finished the value of the cell is kTarget; and under fair
\* scheduling (a thread whose lock can be acquired again and again does
\* acquire it) every writer and every reader terminates when the mutex is
\* std::mutex, or when it is std::shared_mutex and there is one reader.
ReadersWritersProgress ==
  /\ [](WritersFinished => value["a"] = kTarget)
  /\ (prim["a"] = "mutex" \/ Cardinality(RWReaders) = 1) => <>RWAllFinished

\* Two writers and a reader over std::shared_mutex have all finished and the
\* value is kTarget.
ReadersWritersProgressWitness ==
  /\ prim["a"] = "shared_mutex"
  /\ Runs("t1", "writer_func")
  /\ Runs("t2", "reader_func")
  /\ Runs("t3", "writer_func")
  /\ RWAllFinished
  /\ value["a"] = kTarget
  /\ stack["t1"][1].n = kTarget + 1

\* C32  No hold-and-wait inside the combinator: a thread in with_exclusive on
\* two cells calls the blocking lock() only while it holds none of them, and
\* while it holds one of them it is never blocked (it can try the next mutex
\* or back off); and with_exclusive on (a, b) against a thread that takes a
\* guard of b and then a guard of a never ends in a state in which no thread
\* can take a step.
NoHoldAndWait ==
  /\ \A t \in Threads :
       (CombAcquiring(t) /\ Len(Top(t).cells) >= 2) =>
         LET f == Top(t)
         IN  /\ f.st = "lock" =>
                  /\ f.got = {}
                  /\ \A c \in Range(f.cells) : Holds(t, c) = 0
             /\ f.st \in {"try", "backoff"} =>
                  /\ f.got # {}
                  /\ ENABLED (std_lock_try(t) \/ std_lock_backoff(t))
  /\ \E t \in Threads : ENABLED MixStep(t)

\* The thread with the guards holds b and waits for a; with_exclusive(f, a, b)
\* found b taken, has given a back and waits for b holding nothing.
NoHoldAndWaitWitness ==
  /\ CombAcquiring("t1")
  /\ Top("t1").cells = <<"a", "b">>
  /\ Top("t1").st = "lock"
  /\ Top("t1").first = 2
  /\ Holds("t1", "a") = 0
  /\ ~ENABLED std_lock_first("t1")
  /\ Len(stack["t2"]) = 2
  /\ stack["t2"][1].st = "held"
  /\ Holds("t2", "b") = 1
  /\ Top("t2").cells = <<"a">>
  /\ Top("t2").st = "lock"
  /\ ENABLED GuardedScope_ctor("t2")

\* Thread t is in with_exclusive(f, c), on the one cell c.
SingleComb(t) ==
  stack[t] # << >> /\ Top(t).op = CombOp /\ Len(Top(t).cells) = 1

\* C33  Single-cell combinator equals the accessor: the free function
\* with_exclusive(f, c) goes through the states of c.with_exclusive() with f
\* applied under the guard.  It waits exactly when the lock of the guard
\* would wait; every step of it is the step the guard would take (acquiring
\* the same lock with the same effect on the mutex, running the same user
\* code with the mutex untouched, releasing the lock and handing out what f
\* returned or threw); f runs with the mutex owned exclusively and nobody
\* else holding it; after the return the thread holds nothing of c.
SingleCellEquivalence ==
  /\ [](\A t \in Threads :
          SingleComb(t) =>
            LET f == Top(t)
                c == f.cells[1]
                lk == lock_type(FALSE, prim[c])
            IN  /\ f.st \in {"lock", "held", "thrown", "done"}
                /\ f.st = "lock" =>
                     (ENABLED scoped_lock1_ctor(t)
                        <=> LockCanAcquireBy(lk, mutex[c], t, prim[c]))
                /\ InSection(f) =>
                     /\ mutex[c].owner = t
                     /\ \A u \in Threads \ {t} : Holds(u, c) = 0
                /\ f.st = "done" => Holds(t, c) = 0)
  /\ [][\A t \in Threads :
          (SingleComb(t) /\ stack'[t] # stack[t] /\ stack'[t] # << >>) =>
            LET f == Top(t)
                g == stack'[t][Len(stack'[t])]
                c == f.cells[1]
                lk == lock_type(FALSE, prim[c])
            IN  \/ /\ f.st = "lock"
                   /\ g.st = "held"
                   /\ mutex' = [mutex EXCEPT ![c] = LockAcquire(lk, @, t)]
                   /\ value' = value
                \/ /\ InSection(f)
                   /\ g.st = "done"
                   /\ mutex' = [mutex EXCEPT ![c] = LockRelease(lk, @, t)]
                   /\ value' = value
                   /\ g.out = Outcome(f)
                   /\ g.path = (IF f.st = "thrown" THEN "unwind" ELSE "normal")
                \/ /\ f.st = "held"
                   /\ g.st \in {"held", "thrown"}
                   /\ mutex' = mutex]_vars

\* with_exclusive(f, a) has returned after f incremented the value of a, and
\* the mutex of a is free.
SingleCellEquivalenceWitness ==
  \E t \in Threads :
    /\ SingleComb(t)
    /\ Top(t).cells = <<"a">>
    /\ Top(t).st = "done"
    /\ Top(t).path = "normal"
    /\ Top(t).wr = 1
    /\ value["a"] = InitValue["a"] + 1
    /\ mutex["a"] = FreeMutex

\* C34  Consistent order is deadlock-free: when the threads that hold
\* several guards at once all take the guard of value1 before the guard of
\* value2 and destroy every guard at the end of its scope, then as long as a
\* thread has not returned some thread can take a step, and under fair
\* scheduling every thread returns.
OrderedGuardsTerminate ==
  /\ []((\E t \in RWThreads : ~RWFinished(t))
          => \E t \in RWThreads : ENABLED OrderStep(t))
  /\ <>(\A t \in RWThreads : RWFinished(t))

\* One thread holds the guards of a and of b at once while the second waits
\* for a and the third waits for b.
OrderedGuardsTerminateWitness ==
  /\ Len(stack["t1"]) = 3
  /\ stack["t1"][2].cells = <<"a">>
  /\ stack["t1"][2].op = "Guarded.with_exclusive"
  /\ stack["t1"][3].cells = <<"b">>
  /\ stack["t1"][3].st = "held"
  /\ Holds("t1", "a") = 1
  /\ Holds("t1", "b") = 1
  /\ Len(stack["t2"]) = 2
  /\ Top("t2").cells = <<"a">>
  /\ Top("t2").st = "lock"
  /\ ~ENABLED OrderStep("t2")
  /\ Len(stack["t3"]) = 2
  /\ Top("t3").cells = <<"b">>
  /\ Top("t3").st = "lock"
  /\ ~ENABLED OrderStep("t3")

\* Thread t has a GuardedScope that was constructed with a null pointer.
NullGuard(t) ==
  stack[t] # << >> /\ Top(t).op \in ScopeOps /\ Top(t).arg = NullPtr

\* C35  A falsy guard still locks: the constructor of a GuardedScope over a
\* null pointer waits for the mutex exactly as the lock of its lock_type
\* does; while the guard is alive its thread holds the mutex in that mode
\* (shared for GuardedScope<const T, std::shared_mutex>, exclusive otherwise),
\* so that no other thread holds it exclusively, nobody else holds it at all
\* when the lock is exclusive, and a thread that asks for a conflicting lock
\* cannot acquire it; when the guard has been destroyed its thread holds
\* nothing, and a waiting thread can acquire as soon as nobody else holds the
\* mutex.
FalsyGuardLocks ==
  \A t \in Threads :
    NullGuard(t) =>
      LET f == Top(t)
          c == f.cells[1]
          m == mutex[c]
      IN  /\ f.lk = lock_type(f.op = "GuardedScope.const", prim[c])
          /\ f.st = "lock" =>
               (ENABLED GuardedScope_ctor(t)
                  <=> LockCanAcquire(f.lk, m))
          /\ f.st = "held" =>
               /\ ~operator_bool(f)
               /\ IF f.lk = "shared_lock" THEN m.shared[t] = 1
                                          ELSE m.owner = t /\ m.count = 1
               /\ \A u \in Threads \ {t} :
                    /\ m.owner # u
                    /\ f.lk = "scoped_lock" => Holds(u, c) = 0
                    /\ (/\ stack[u] # << >>
                        /\ Top(u).st = "lock"
                        /\ Top(u).cells = <<c>>
                        /\ "scoped_lock" \in {f.lk, Top(u).lk})
                         => ~ENABLED GuardedScope_ctor(u)
          /\ f.st = "done" =>
               /\ Holds(t, c) = 0
               /\ \A u \in Threads \ {t} :
                    (/\ stack[u] # << >>
                     /\ Top(u).st = "lock"
                     /\ Top(u).cells = <<c>>)
                      => ENABLED GuardedScope_ctor(u)

\* A false GuardedScope<int, std::mutex> over the mutex of a is alive and the
\* other thread waits in the constructor of a guard over the same mutex.
FalsyGuardLocksWitness ==
  /\ prim["a"] = "mutex"
  /\ NullGuard("t1")
  /\ Top("t1").op = "GuardedScope"
  /\ Top("t1").cells = <<"a">>
  /\ Top("t1").st = "held"
  /\ mutex["a"].owner = "t1"
  /\ stack["t2"] # << >>
  /\ Top("t2").cells = <<"a">>
  /\ Top("t2").st = "lock"
  /\ ~ENABLED GuardedScope_ctor("t2")

\* C36  Consistent snapshot from a callback: while the callback of
\* Value::with_shared, Value::with_exclusive or the free with_exclusive runs,
\* up to the step in which the call returns and releases, the thread holds
\* the mutex of every cell of the call, and what the callback has copied of
\* the values is what the cells hold at that instant, all of them together:
\* no other thread has changed any of them since the copy was taken.
ConsistentSnapshot ==
  /\ [](\A t \in Threads :
          (/\ stack[t] # << >>
           /\ Top(t).op \in ValueOps \cup {CombOp}
           /\ Top(t).st = "held") =>
             LET f == Top(t)
             IN  /\ \A i \in 1..Len(f.cells) : Holds(t, f.cells[i]) = 1
                 /\ f.ph = "rd" =>
                      \A i \in 1..Len(f.cells) : f.loc[i] = value[f.cells[i]])
  /\ [][\A t \in Threads :
          (/\ stack[t] # << >>
           /\ Top(t).op \in ValueOps \cup {CombOp}
           /\ Top(t).st # "done"
           /\ stack'[t] # << >>
           /\ stack'[t][Len(stack'[t])].st = "done") =>
             /\ InSection(Top(t))
             /\ \A i \in 1..Len(Top(t).cells) :
                  /\ Holds(t, Top(t).cells[i]) = 1
                  /\ Holds(t, Top(t).cells[i])' = 0
                  /\ value'[Top(t).cells[i]] = value[Top(t).cells[i]]]_vars

\* A callback of b.with_shared() holds a copy of the value a writer has left
\* in b, while a call of b.with_exclusive() waits.
ConsistentSnapshotWitness ==
  /\ kind["b"] = "Value"
  /\ incs["b"] = 1
  /\ stack["t1"] # << >>
  /\ Top("t1").op = "Value.with_shared"
  /\ Top("t1").cells = <<"b">>
  /\ Top("t1").st = "held"
  /\ Top("t1").ph = "rd"
  /\ Top("t1").loc = <<InitValue["b"] + 1>>
  /\ stack["t2"] # << >>
  /\ Top("t2").op = "Value.with_exclusive"
  /\ Top("t2").cells = <<"b">>
  /\ Top("t2").st = "lock"

\* C37  No rollback on callback failure: the step in which a call of
\* Value::with_exclusive or of the free with_exclusive is left by the
\* exception of its callback releases the locks of the call and changes no
\* value, so that every value is still its initial value plus the writes
\* made to it (those of the failed callbacks included), and the caller gets
\* the exception.
NoRollback ==
  /\ [](\A c \in Cells : value[c] = InitValue[c] + incs[c])
  /\ [][\A t \in Threads :
          (/\ stack[t] # << >>
           /\ Top(t).op \in {"Value.with_exclusive", CombOp}
           /\ Top(t).st = "thrown"
           /\ stack'[t] # stack[t]) =>
             /\ value' = value
             /\ stack'[t] # << >>
             /\ stack'[t][Len(stack'[t])].st = "done"
             /\ stack'[t][Len(stack'[t])].path = "unwind"
             /\ stack'[t][Len(stack'[t])].out = Top(t).err
             /\ \A c \in Range(Top(t).cells) : Holds(t, c)' = 0]_vars

\* The callback of with_exclusive(f, a, b) has thrown after it had
\* incremented a and b: the call has been left, the mutexes are free and the
\* increments are in the cells.
NoRollbackWitness ==
  \E t \in Threads :
    /\ stack[t] # << >>
    /\ Top(t).op = CombOp
    /\ Top(t).cells = <<"a", "b">>
    /\ Top(t).st = "done"
    /\ Top(t).path = "unwind"
    /\ Top(t).out \in Errors
    /\ Top(t).wr = 1
    /\ value["a"] = InitValue["a"] + 1
    /\ value["b"] = InitValue["b"] + 1
    /\ mutex["a"] = FreeMutex
    /\ mutex["b"] = FreeMutex
====
